---- MODULE Spec2Model ----
(***************************************************************************)
(* A model of the download tracker's job store (state_storage.py) and of   *)
(* the code that writes job records through it (utils.py, app.py).         *)
(*                                                                         *)
(* The store is modelled at the level of asyncio's scheduling: a coroutine *)
(* runs without interruption up to its next real suspension (an aiofiles   *)
(* call, a busy lock, a sleep).  `running` names the task inside such a    *)
(* synchronous section; only that task may step until it suspends.  The    *)
(* aiofiles calls run in a thread pool, so their file effects (the actions *)
(* marked "thread") happen whatever the event loop is doing.               *)
(***************************************************************************)
EXTENDS Integers, Sequences, FiniteSets, TLC

\* ---------------------------------------------------------------- bounds
NTasks == 3
MaxOps == 2
RmwEach == 1
MaxVal == 1
MaxCrashes == 1
MaxQueue == 2
MaxTime == 2
MaxCalls == 1
MaxPasses == 1
MaxCancels == 2

Tasks == 1..NTasks
Keys == {"k1", "k2"}
Inodes == 1..(NTasks + 3)

VARIABLES
  state,        \* StateStorage.state: the in-memory dict
  initialized,  \* StateStorage._initialized
  lazy,         \* StateStorage._lazy_init_attempted
  lock,         \* holder of StateStorage.lock, 0 when free
  waiters,      \* tasks suspended in lock.acquire(), first come first
  files,        \* directory: path -> inode, 0 when the path does not exist
  disk,         \* inode -> content
  pc,           \* where each task is suspended
  op,           \* the store operation each task is running
  frame,        \* who called _save_state: "init" or "atomic"
  rpath,        \* which file initialize is reading: "p", "b1" (fallback), "b2" (elif)
  fh,           \* the inode of the file a task has open, 0 when none
  buf,          \* content read from / to be written through fh
  tmp,          \* local value of a read-modify-write body
  res,          \* outcome of the task's last operation
  snap,         \* history: primary and backup as initialize found them
  running,      \* the task inside a synchronous section, 0 when the loop is free
  ops,          \* operations each task may still issue
  crashes,      \* process crashes so far
  durable,      \* history: the map last loaded or committed
  cpre,         \* history: durable map when the commit in progress began
  cpost,        \* history: map the commit in progress writes
  phase,        \* history: "boot", "run", "crashed", "recovered", "removed", "restored"
  crashRec,     \* history: the commit interrupted by the last crash
  loaded,       \* history: what the last completed initialize loaded, and from what
  prevPrimary,  \* history: what the primary held before the last atomic_operation commit
  jobs,         \* each download job: where process_download is, its poller, its progress file
  queue,        \* update_item tasks made by create_task that have not run yet
  media,        \* the jobs whose downloaded file is on disk
  now,          \* the clock: one tick is a little more than the eviction window
  sweep,        \* the running pass of periodic_downloads_cleanup (missing: it removed a record whose file was gone)
  active_downloads, \* app.py's dict of cancellable handles, as the set of its keys
  failed,       \* history: the last atomic_operation whose body raised
  dl,           \* download.py: the DownloadState a caller holds, and where download_video is
  hook,         \* a yt-dlp progress hook: its record's key, its progress file, what it committed
  cm,           \* the CleanupManager: its task, a stop() in progress, the files of its two directories
  order         \* history: the update_item calls in the order they arrived and were applied

storeVars == <<state, initialized, lazy, lock, waiters, files, disk>>
taskVars == <<pc, op, frame, rpath, fh, buf, tmp, res, snap, running, ops>>
histVars == <<crashes, durable, cpre, cpost, phase, crashRec, loaded, prevPrimary>>
jobVars == <<jobs, queue, media, now, sweep, active_downloads>>
extVars == <<failed, dl, hook, order, cm>>
vars == <<storeVars, taskVars, histVars, jobVars, extVars>>

\* ------------------------------------------------------------ dictionaries
\* A Python dict: its keys in insertion order and the value of each.
EmptyFn == [x \in {} |-> 0]

EmptyDict == [keys |-> <<>>, val |-> EmptyFn]

Has(d, k) == k \in DOMAIN d.val

Put(d, k, v) ==
  [keys |-> IF Has(d, k) THEN d.keys ELSE Append(d.keys, k),
   val |-> [x \in (DOMAIN d.val) \cup {k} |-> IF x = k THEN v ELSE d.val[x]]]

Del(d, k) ==
  [keys |-> SelectSeq(d.keys, LAMBDA x : x # k),
   val |-> [x \in (DOMAIN d.val) \ {k} |-> d.val[x]]]

\* dict.update on a record: the fields of upd overwrite, the others stay.
Merge(cur, upd) ==
  [f \in (DOMAIN cur) \cup (DOMAIN upd) |-> IF f \in DOMAIN upd THEN upd[f] ELSE cur[f]]

\* The body of update_item's atomic section.
UpdateItemBody(d, k, value) ==
  IF ~Has(d, k) THEN Put(d, k, value) ELSE Put(d, k, Merge(d.val[k], value))

\* The body of delete_item's atomic section.
DeleteItemBody(d, k) == IF Has(d, k) THEN Del(d, k) ELSE d

\* ------------------------------------------------------------------ files
\* json.dumps(state, indent=2): the length of the text, every number one digit.
NameLen(s) ==
  CASE s = "progress" -> 8
    [] s = "count" -> 5
    [] OTHER -> 2

RECURSIVE SumLen(_, _)
SumLen(S, f) ==
  IF S = {} THEN 0
  ELSE LET x == CHOOSE y \in S : TRUE IN NameLen(x) + f + SumLen(S \ {x}, f)

RecordLen(r) ==
  IF DOMAIN r = {} THEN 2
  ELSE 2 + SumLen(DOMAIN r, 9) + 2 * (Cardinality(DOMAIN r) - 1) + 4

RECURSIVE EntriesLen(_, _)
EntriesLen(d, i) ==
  IF i > Len(d.keys) THEN 0
  ELSE 2 + NameLen(d.keys[i]) + 4 + RecordLen(d.val[d.keys[i]]) + EntriesLen(d, i + 1)

JsonLen(d) ==
  IF d.keys = <<>> THEN 2
  ELSE 2 + EntriesLen(d, 1) + 2 * (Len(d.keys) - 1) + 2

\* The content of a file: text that parses to a dict, or text that does not.
Json(d) == [valid |-> TRUE, dict |-> d, len |-> JsonLen(d)]

Garbage(n) == [valid |-> FALSE, dict |-> EmptyDict, len |-> n]

EmptyFile == Garbage(0)

Truncated == Garbage(1)

\* A write at offset 0 through a handle: text at least as long as what the file
\* holds replaces it, shorter text leaves the old tail behind it.
Overlay(old, new) == IF new.len >= old.len THEN new ELSE Garbage(old.len)

Referenced(fs, hs) == {fs[p] : p \in DOMAIN fs} \cup {hs[t] : t \in Tasks}

NewInode(fs, hs) == CHOOSE i \in Inodes : i \notin Referenced(fs, hs) /\ \A j \in Inodes : j < i => j \in Referenced(fs, hs)

\* An inode no path and no handle refers to is gone.
Collect(dk, fs, hs) == [i \in Inodes |-> IF i \in Referenced(fs, hs) THEN dk[i] ELSE EmptyFile]

\* os.replace(src, dst)
Replace(fs, src, dst) == [fs EXCEPT ![dst] = fs[src], ![src] = 0]

Exists(p) == files[p] # 0

FileOf(p) == IF files[p] = 0 THEN [exists |-> FALSE, content |-> EmptyFile]
             ELSE [exists |-> TRUE, content |-> disk[files[p]]]

NoFile == [exists |-> FALSE, content |-> EmptyFile]

NoOp == [name |-> "none", key |-> "-", val |-> EmptyFn]

NoCommit == [in |-> FALSE, pre |-> EmptyDict, post |-> EmptyDict]

NoLoad == [done |-> FALSE, dict |-> EmptyDict, primary |-> NoFile, backup |-> NoFile]


\* ------------------------------------------------------------ initial state
UpdateVals == {[progress |-> v] : v \in 1..MaxVal}

InitDicts == {EmptyDict, Put(EmptyDict, "k1", [progress |-> 1])}

\* What a file can hold when the process starts: nothing, a map, zero bytes, or
\* JSON cut short.
InitContents == {Json(d) : d \in InitDicts} \cup {EmptyFile, Truncated}

FreshMemory ==
  /\ state = EmptyDict
  /\ initialized = FALSE
  /\ lazy = FALSE
  /\ lock = 0
  /\ waiters = <<>>

FreshTasks ==
  /\ pc = [t \in Tasks |-> "idle"]
  /\ op = [t \in Tasks |-> NoOp]
  /\ frame = [t \in Tasks |-> "none"]
  /\ rpath = [t \in Tasks |-> "p"]
  /\ fh = [t \in Tasks |-> 0]
  /\ buf = [t \in Tasks |-> EmptyFile]
  /\ tmp = [t \in Tasks |-> 0]
  /\ res = [t \in Tasks |-> "none"]
  /\ snap = [t \in Tasks |-> [primary |-> NoFile, backup |-> NoFile]]
  /\ running = 0

NoJob == [pc |-> "none", poll |-> "none", pfile |-> 0, syncs |-> 0, cancels |-> 0,
          reply |-> "none", term |-> FALSE, stream |-> "none", events |-> <<>>]

NoSweep == [on |-> FALSE, pos |-> 0, used |-> 0, qual |-> {}, passes |-> 0, missing |-> FALSE]

JobIds == {"a", "b"}

FreshJobs ==
  /\ jobs = [j \in JobIds |-> NoJob]
  /\ queue = <<>>
  /\ media = {}
  /\ now = 1
  /\ sweep = NoSweep
  /\ active_downloads = {}

\* dict.get(key): the value in a sequence of one, None as the empty sequence
Lookup(d, k) == IF Has(d, k) THEN <<d.val[k]>> ELSE <<>>

NoFailed == [on |-> FALSE, key |-> "-", before |-> <<>>, read |-> FALSE, got |-> <<>>]

\* DownloadState.max_retries: Field(3, ...)
MaxRetries == 3

\* DownloadState.error: None, or the text update_status was given
NoError == [prefix |-> "none", msg |-> "none"]

\* The fields of a DownloadState that download.py reads or writes.
DownloadState(status, progress, max_retries) ==
  [status |-> status, progress |-> progress, error |-> NoError, file_path |-> "none",
   retry_count |-> 0, max_retries |-> max_retries]

\* No DownloadState is in use.
NoDownload ==
  [st |-> DownloadState("initializing", 0, MaxRetries), pc |-> "none",
   attempts |-> 0, fails |-> 0, retried |-> 0, exc |-> "none", last |-> "none",
   cancels |-> 0, cout |-> "none", cbefore |-> DownloadState("initializing", 0, MaxRetries)]

\* No download with a progress hook is running.
NoHook == [key |-> "-", file |-> 0, committed |-> <<>>, samples |-> 0, last |-> "none",
           blind |-> FALSE]

\* The order of calls is not being recorded.
NoOrder == [on |-> FALSE, arrived |-> <<>>, applied |-> <<>>]

\* No CleanupManager: _cleanup_task is None and the directories are not looked at.
NoCleanup == [task |-> "none", files |-> <<>>, faults |-> 0, passes |-> 0, slept |-> 0,
              stop |-> "none", orphans |-> 0]

FreshExt ==
  /\ failed = NoFailed
  /\ dl = NoDownload
  /\ hook = NoHook
  /\ cm = NoCleanup
  /\ order = NoOrder

FreshHistory ==
  /\ crashes = 0
  /\ durable = EmptyDict
  /\ cpre = EmptyDict
  /\ cpost = EmptyDict
  /\ phase = "boot"
  /\ crashRec = NoCommit
  /\ loaded = NoLoad
  /\ prevPrimary = NoFile

\* The directory holds any combination of primary and backup; inode 1 is the
\* primary's and inode 2 the backup's.
InitDirectory ==
  \E hasP \in BOOLEAN, hasB \in BOOLEAN, cp \in InitContents, cb \in InitContents :
    /\ files = [primary |-> IF hasP THEN 1 ELSE 0, backup |-> IF hasB THEN 2 ELSE 0, temp |-> 0]
    /\ disk = [i \in Inodes |-> IF i = 1 /\ hasP THEN cp ELSE IF i = 2 /\ hasB THEN cb ELSE EmptyFile]

\* ------------------------------------------------------------- task steps
Path(t) == IF rpath[t] = "p" THEN "primary" ELSE "backup"

\* A recovery that ignores what the backup holds.
LoadBackupIgnored(c) == EmptyDict

\* json.loads of a backup's text, {} on JSONDecodeError.
LoadBackup(c) == IF c.valid THEN c.dict ELSE EmptyDict

\* A task picks its next store operation.
Call(t, o) ==
  /\ running = 0
  /\ pc[t] = "idle"
  /\ ops[t] > 0
  /\ op' = [op EXCEPT ![t] = o]
  /\ pc' = [pc EXCEPT ![t] = "start"]
  /\ ops' = [ops EXCEPT ![t] = @ - 1]
  /\ res' = [res EXCEPT ![t] = "none"]
  /\ frame' = [frame EXCEPT ![t] = "none"]
  /\ phase' = IF phase \in {"recovered", "restored"} THEN "run" ELSE phase
  /\ UNCHANGED <<storeVars, rpath, fh, buf, tmp, snap, running>>
  /\ UNCHANGED <<crashes, durable, cpre, cpost, crashRec, loaded, prevPrimary>>
  /\ UNCHANGED <<jobVars, extVars>>

\* The operation's first lines: the _initialized checks of get_item, set_item
\* and update_item.
Start(t) ==
  /\ running = 0
  /\ pc[t] = "start"
  /\ LET n == op[t].name
         dropped == n = "update_item" /\ ~initialized /\ lazy
         refused == n = "set_item" /\ ~initialized
         needInit == n = "initialize" \/ (n \in {"get_item", "update_item"} /\ ~initialized)
     IN /\ lazy' = IF n = "update_item" /\ ~initialized THEN TRUE ELSE lazy
        /\ pc' = [pc EXCEPT ![t] = IF dropped \/ refused THEN "idle"
                                   ELSE IF needInit THEN "i_check" ELSE "lock"]
        /\ res' = [res EXCEPT ![t] = IF dropped THEN "dropped" ELSE IF refused THEN "error" ELSE @]
        /\ running' = IF dropped \/ refused THEN 0 ELSE t
        /\ order' = IF order.on /\ n = "update_item" /\ ~dropped
                    THEN [order EXCEPT !.arrived = Append(@, t)]
                    ELSE order
  /\ UNCHANGED <<state, initialized, lock, waiters, files, disk>>
  /\ UNCHANGED <<op, frame, rpath, fh, buf, tmp, snap, ops, histVars>>
  /\ UNCHANGED <<jobVars, failed, dl, hook, cm>>

\* initialize: the os.path.exists checks that choose the branch.
ICheck(t) ==
  /\ running = t
  /\ pc[t] = "i_check"
  /\ snap' = [snap EXCEPT ![t] = [primary |-> FileOf("primary"), backup |-> FileOf("backup")]]
  /\ IF Exists("primary") \/ Exists("backup")
     THEN /\ rpath' = [rpath EXCEPT ![t] = IF Exists("primary") THEN "p" ELSE "b2"]
          /\ pc' = [pc EXCEPT ![t] = "i_open"]
          /\ UNCHANGED <<state, frame, durable>>
     ELSE /\ state' = EmptyDict
          /\ durable' = EmptyDict
          /\ frame' = [frame EXCEPT ![t] = "init"]
          /\ pc' = [pc EXCEPT ![t] = "s_open"]
          /\ UNCHANGED rpath
  /\ running' = 0
  /\ UNCHANGED <<initialized, lazy, lock, waiters, files, disk>>
  /\ UNCHANGED <<op, fh, buf, tmp, res, ops>>
  /\ UNCHANGED <<crashes, cpre, cpost, phase, crashRec, loaded, prevPrimary>>
  /\ UNCHANGED <<jobVars, extVars>>

\* thread: aiofiles.open(path, 'r')
IOpen(t) ==
  /\ pc[t] = "i_open"
  /\ IF files[Path(t)] = 0
     THEN /\ pc' = [pc EXCEPT ![t] = "i_err_r"]
          /\ UNCHANGED fh
     ELSE /\ pc' = [pc EXCEPT ![t] = "i_opened"]
          /\ fh' = [fh EXCEPT ![t] = files[Path(t)]]
  /\ UNCHANGED <<storeVars, op, frame, rpath, buf, tmp, res, snap, running, ops, histVars>>
  /\ UNCHANGED <<jobVars, extVars>>

\* the coroutine resumes with the open file and awaits f.read()
IOpened(t) ==
  /\ running = 0
  /\ pc[t] = "i_opened"
  /\ pc' = [pc EXCEPT ![t] = "i_read"]
  /\ UNCHANGED <<storeVars, op, frame, rpath, fh, buf, tmp, res, snap, running, ops, histVars>>
  /\ UNCHANGED <<jobVars, extVars>>

\* thread: f.read()
IRead(t) ==
  /\ pc[t] = "i_read"
  /\ buf' = [buf EXCEPT ![t] = disk[fh[t]]]
  /\ pc' = [pc EXCEPT ![t] = "i_got"]
  /\ UNCHANGED <<storeVars, op, frame, rpath, fh, tmp, res, snap, running, ops, histVars>>
  /\ UNCHANGED <<jobVars, extVars>>

\* the coroutine resumes with the text: json.loads and the fallbacks
ILoad(t) ==
  /\ running = 0
  /\ pc[t] = "i_got"
  /\ LET c == buf[t]
         again == rpath[t] = "p" /\ c.len # 0 /\ ~c.valid /\ Exists("backup")
         got == IF rpath[t] = "p"
                THEN (IF c.len # 0 /\ c.valid THEN c.dict ELSE EmptyDict)
                ELSE LoadBackup(c)
         hs == [fh EXCEPT ![t] = 0]
     IN /\ fh' = hs
        /\ disk' = Collect(disk, files, hs)
        /\ IF again
           THEN /\ rpath' = [rpath EXCEPT ![t] = "b1"]
                /\ pc' = [pc EXCEPT ![t] = "i_open"]
                /\ UNCHANGED <<state, durable, frame>>
           ELSE /\ state' = got
                /\ durable' = got
                /\ pc' = [pc EXCEPT ![t] = IF rpath[t] = "b2" THEN "s_open" ELSE "i_close"]
                /\ frame' = [frame EXCEPT ![t] = IF rpath[t] = "b2" THEN "init" ELSE @]
                /\ UNCHANGED rpath
  /\ UNCHANGED <<initialized, lazy, lock, waiters, files>>
  /\ UNCHANGED <<op, buf, tmp, res, snap, running, ops>>
  /\ UNCHANGED <<crashes, cpre, cpost, phase, crashRec, loaded, prevPrimary>>
  /\ UNCHANGED <<jobVars, extVars>>

\* the coroutine resumes after the files are closed
IClosed(t) ==
  /\ running = 0
  /\ pc[t] = "i_close"
  /\ pc' = [pc EXCEPT ![t] = "i_done"]
  /\ running' = t
  /\ UNCHANGED <<storeVars, op, frame, rpath, fh, buf, tmp, res, snap, ops, histVars>>
  /\ UNCHANGED <<jobVars, extVars>>

\* initialize returns: _initialized = True, and the caller goes on
IDone(t) ==
  /\ running = t
  /\ pc[t] = "i_done"
  /\ initialized' = TRUE
  /\ loaded' = [done |-> TRUE, dict |-> state, primary |-> snap[t].primary, backup |-> snap[t].backup]
  /\ phase' = CASE phase = "crashed" -> "recovered"
                [] phase = "removed" -> "restored"
                [] OTHER -> "run"
  /\ frame' = [frame EXCEPT ![t] = "none"]
  /\ IF op[t].name = "initialize"
     THEN /\ pc' = [pc EXCEPT ![t] = "idle"]
          /\ res' = [res EXCEPT ![t] = "ok"]
          /\ running' = 0
     ELSE /\ pc' = [pc EXCEPT ![t] = "lock"]
          /\ UNCHANGED <<res, running>>
  /\ UNCHANGED <<state, lazy, lock, waiters, files, disk>>
  /\ UNCHANGED <<op, rpath, fh, buf, tmp, snap, ops>>
  /\ UNCHANGED <<crashes, durable, cpre, cpost, crashRec, prevPrimary>>
  /\ UNCHANGED <<jobVars, extVars>>

\* initialize raises: _initialized = False; update_item swallows the error
IFail(t) ==
  /\ pc[t] \in {"i_err_r", "i_err"}
  /\ running = IF pc[t] = "i_err" THEN t ELSE 0
  /\ initialized' = FALSE
  /\ pc' = [pc EXCEPT ![t] = "idle"]
  /\ res' = [res EXCEPT ![t] = IF op[t].name = "update_item" THEN "dropped" ELSE "error"]
  /\ running' = 0
  /\ UNCHANGED <<state, lazy, lock, waiters, files, disk>>
  /\ UNCHANGED <<op, frame, rpath, fh, buf, tmp, snap, ops, histVars>>
  /\ UNCHANGED <<jobVars, extVars>>

\* An atomic section entered without taking the lock.
LockNotTaken(t) ==
  /\ running = t
  /\ pc[t] = "lock"
  /\ pc' = [pc EXCEPT ![t] = "body"]
  /\ UNCHANGED <<storeVars, op, frame, rpath, fh, buf, tmp, res, snap, running, ops, histVars>>
  /\ UNCHANGED <<jobVars, extVars>>

\* async with self.lock: asyncio.Lock hands the lock over first come first served
Lock(t) ==
  /\ running = t
  /\ pc[t] = "lock"
  /\ IF lock = 0 /\ waiters = <<>>
     THEN /\ lock' = t
          /\ pc' = [pc EXCEPT ![t] = "body"]
          /\ UNCHANGED <<waiters, running>>
     ELSE /\ waiters' = Append(waiters, t)
          /\ pc' = [pc EXCEPT ![t] = "wait"]
          /\ running' = 0
          /\ UNCHANGED lock
  /\ UNCHANGED <<state, initialized, lazy, files, disk>>
  /\ UNCHANGED <<op, frame, rpath, fh, buf, tmp, res, snap, ops, histVars>>
  /\ UNCHANGED <<jobVars, extVars>>

\* the waiter that came last resumes holding the lock
WakeLast(t) ==
  /\ running = 0
  /\ pc[t] = "wait"
  /\ lock = 0
  /\ waiters # <<>>
  /\ waiters[Len(waiters)] = t
  /\ lock' = t
  /\ waiters' = SubSeq(waiters, 1, Len(waiters) - 1)
  /\ pc' = [pc EXCEPT ![t] = "body"]
  /\ running' = t
  /\ UNCHANGED <<state, initialized, lazy, files, disk>>
  /\ UNCHANGED <<op, frame, rpath, fh, buf, tmp, res, snap, ops, histVars>>
  /\ UNCHANGED <<jobVars, extVars>>

\* the first waiter resumes holding the lock
Wake(t) ==
  /\ running = 0
  /\ pc[t] = "wait"
  /\ lock = 0
  /\ waiters # <<>>
  /\ Head(waiters) = t
  /\ lock' = t
  /\ waiters' = Tail(waiters)
  /\ pc' = [pc EXCEPT ![t] = "body"]
  /\ running' = t
  /\ UNCHANGED <<state, initialized, lazy, files, disk>>
  /\ UNCHANGED <<op, frame, rpath, fh, buf, tmp, res, snap, ops, histVars>>
  /\ UNCHANGED <<jobVars, extVars>>

Count(d, k) == IF Has(d, k) /\ "count" \in DOMAIN d.val[k] THEN d.val[k].count ELSE 0

\* The statements between taking the lock and the first suspension.  The
\* operation "abort" is an atomic_operation whose body assigns a key and then
\* raises: the except clause logs and re-raises, so _save_state is skipped and
\* the lock is released.
Body(t) ==
  /\ running = t
  /\ pc[t] = "body"
  /\ LET n == op[t].name
         k == op[t].key
     IN /\ state' = CASE n = "update_item" -> UpdateItemBody(state, k, op[t].val)
                      [] n = "set_item" -> Put(state, k, op[t].val)
                      [] n = "delete_item" -> DeleteItemBody(state, k)
                      [] n = "abort" -> Put(state, k, op[t].val)
                      [] OTHER -> state
        /\ tmp' = [tmp EXCEPT ![t] = IF n = "rmw" THEN Count(state, k) ELSE @]
        /\ pc' = [pc EXCEPT ![t] = CASE n \in {"get_item", "abort"} -> "unlock"
                                     [] n = "rmw" -> "r_sleep"
                                     [] OTHER -> "s_open"]
        /\ res' = [res EXCEPT ![t] = CASE n = "get_item" -> "ok"
                                      [] n = "abort" -> "raised"
                                      [] OTHER -> @]
        /\ frame' = [frame EXCEPT ![t] = IF n \in {"get_item", "abort"} THEN @ ELSE "atomic"]
        /\ running' = IF n \in {"get_item", "abort"} THEN t ELSE 0
        /\ failed' = CASE n = "abort" ->
                             [on |-> TRUE, key |-> k, before |-> Lookup(state, k),
                              read |-> FALSE, got |-> <<>>]
                        [] n = "get_item" /\ failed.on /\ failed.key = k ->
                             [failed EXCEPT !.read = TRUE, !.got = Lookup(state, k)]
                        [] n \in {"update_item", "set_item", "delete_item"} /\ failed.key = k ->
                             NoFailed
                        [] OTHER -> failed
        /\ order' = IF order.on /\ n = "update_item"
                    THEN [order EXCEPT !.applied = Append(@, t)]
                    ELSE order
  /\ UNCHANGED <<initialized, lazy, lock, waiters, files, disk>>
  /\ UNCHANGED <<op, rpath, fh, buf, snap, ops, histVars>>
  /\ UNCHANGED <<jobVars, dl, hook, cm>>

\* A read-modify-write body resumes after its await and stores what it computed.
RmwWrite(t) ==
  /\ running = 0
  /\ pc[t] = "r_sleep"
  /\ state' = UpdateItemBody(state, op[t].key, [count |-> tmp[t] + 1])
  /\ pc' = [pc EXCEPT ![t] = "s_open"]
  /\ UNCHANGED <<initialized, lazy, lock, waiters, files, disk>>
  /\ UNCHANGED <<op, frame, rpath, fh, buf, tmp, res, snap, running, ops, histVars>>
  /\ UNCHANGED <<jobVars, extVars>>

\* thread: aiofiles.open(temp_file, 'w') creates the temp file or empties it
SOpen(t) ==
  /\ pc[t] = "s_open"
  /\ LET i == IF files.temp # 0 THEN files.temp ELSE NewInode(files, fh)
     IN /\ files' = [files EXCEPT !.temp = i]
        /\ fh' = [fh EXCEPT ![t] = i]
        /\ disk' = [disk EXCEPT ![i] = EmptyFile]
  /\ cpre' = durable
  /\ cpost' = state
  /\ pc' = [pc EXCEPT ![t] = "s_opened"]
  /\ UNCHANGED <<state, initialized, lazy, lock, waiters>>
  /\ UNCHANGED <<op, frame, rpath, buf, tmp, res, snap, running, ops>>
  /\ UNCHANGED <<crashes, durable, phase, crashRec, loaded, prevPrimary>>
  /\ UNCHANGED <<jobVars, extVars>>

\* the coroutine resumes: json.dumps(self.state, indent=2), then awaits f.write
SWrite(t) ==
  /\ running = 0
  /\ pc[t] = "s_opened"
  /\ buf' = [buf EXCEPT ![t] = Json(state)]
  /\ pc' = [pc EXCEPT ![t] = "s_flush"]
  /\ UNCHANGED <<storeVars, op, frame, rpath, fh, tmp, res, snap, running, ops, histVars>>
  /\ UNCHANGED <<jobVars, extVars>>

\* thread: f.write and f.flush put the text at the start of the open file
SFlush(t) ==
  /\ pc[t] = "s_flush"
  /\ disk' = [disk EXCEPT ![fh[t]] = Overlay(@, buf[t])]
  /\ pc' = [pc EXCEPT ![t] = "s_flushed"]
  /\ UNCHANGED <<state, initialized, lazy, lock, waiters, files>>
  /\ UNCHANGED <<op, frame, rpath, fh, buf, tmp, res, snap, running, ops, histVars>>
  /\ UNCHANGED <<jobVars, extVars>>

\* the coroutine resumes: fsync, close, and the primary becomes the backup
SRename1(t) ==
  /\ running = 0
  /\ pc[t] = "s_flushed"
  /\ LET fs == IF Exists("primary") THEN Replace(files, "primary", "backup") ELSE files
         hs == [fh EXCEPT ![t] = 0]
     IN /\ files' = fs
        /\ fh' = hs
        /\ disk' = Collect(disk, fs, hs)
  /\ prevPrimary' = IF frame[t] = "atomic" THEN FileOf("primary") ELSE prevPrimary
  /\ pc' = [pc EXCEPT ![t] = "s_ren2"]
  /\ running' = t
  /\ UNCHANGED <<state, initialized, lazy, lock, waiters>>
  /\ UNCHANGED <<op, frame, rpath, buf, tmp, res, snap, ops>>
  /\ UNCHANGED <<crashes, durable, cpre, cpost, phase, crashRec, loaded>>
  /\ UNCHANGED <<jobVars, extVars>>

\* os.replace(temp_file, self.state_file): FileNotFoundError when the temp file
\* is gone
SRename2(t) ==
  /\ running = t
  /\ pc[t] = "s_ren2"
  /\ IF Exists("temp")
     THEN /\ files' = Replace(files, "temp", "primary")
          /\ disk' = Collect(disk, Replace(files, "temp", "primary"), fh)
          /\ durable' = buf[t].dict
          /\ pc' = [pc EXCEPT ![t] = IF frame[t] = "init" THEN "i_done" ELSE "unlock"]
          /\ res' = [res EXCEPT ![t] = IF frame[t] = "init" THEN @ ELSE "ok"]
     ELSE /\ pc' = [pc EXCEPT ![t] = IF frame[t] = "init" THEN "i_err" ELSE "unlock"]
          /\ res' = [res EXCEPT ![t] = IF frame[t] = "init" THEN @ ELSE "error"]
          /\ UNCHANGED <<files, disk, durable>>
  /\ UNCHANGED <<state, initialized, lazy, lock, waiters>>
  /\ UNCHANGED <<op, frame, rpath, fh, buf, tmp, snap, running, ops>>
  /\ UNCHANGED <<crashes, cpre, cpost, phase, crashRec, loaded, prevPrimary>>
  /\ UNCHANGED <<jobVars, extVars>>

\* the async with block ends
Unlock(t) ==
  /\ running = t
  /\ pc[t] = "unlock"
  /\ lock' = 0
  /\ pc' = [pc EXCEPT ![t] = "idle"]
  /\ running' = 0
  /\ UNCHANGED <<state, initialized, lazy, waiters, files, disk>>
  /\ UNCHANGED <<op, frame, rpath, fh, buf, tmp, res, snap, ops, histVars>>
  /\ UNCHANGED <<jobVars, extVars>>

\* ------------------------------------------------------- the environment
\* A commit is under way from the opening of the temp file to the return of
\* _save_state.
InCommit(t) ==
  \/ pc[t] \in {"s_opened", "s_flush", "s_flushed", "s_ren2"}
  \/ pc[t] \in {"i_done", "unlock"} /\ frame[t] # "none"

Writing(t) == pc[t] \in {"s_flush", "s_flushed"}

\* The process dies and is started again: memory is lost, the directory stays.
\* Text written to the temp file but not yet fsynced may be cut short.
Restart(fs, dk) ==
  /\ state' = EmptyDict
  /\ initialized' = FALSE
  /\ lazy' = FALSE
  /\ lock' = 0
  /\ waiters' = <<>>
  /\ files' = fs
  /\ disk' = Collect(dk, fs, [t \in Tasks |-> 0])
  /\ pc' = [t \in Tasks |-> "idle"]
  /\ op' = [t \in Tasks |-> NoOp]
  /\ frame' = [t \in Tasks |-> "none"]
  /\ rpath' = [t \in Tasks |-> "p"]
  /\ fh' = [t \in Tasks |-> 0]
  /\ buf' = [t \in Tasks |-> EmptyFile]
  /\ tmp' = [t \in Tasks |-> 0]
  /\ res' = [t \in Tasks |-> "none"]
  /\ snap' = [t \in Tasks |-> [primary |-> NoFile, backup |-> NoFile]]
  /\ running' = 0
  /\ crashes' = crashes + 1
  /\ durable' = EmptyDict
  /\ cpre' = EmptyDict
  /\ cpost' = EmptyDict
  /\ loaded' = NoLoad
  /\ UNCHANGED <<jobVars, extVars>>

Crash ==
  /\ crashes < MaxCrashes
  /\ \E cut \in BOOLEAN :
       /\ cut => \E t \in Tasks : Writing(t)
       /\ Restart(files, [i \in Inodes |->
                            IF cut /\ \E t \in Tasks : Writing(t) /\ fh[t] = i
                            THEN Truncated ELSE disk[i]])
  /\ phase' = "crashed"
  /\ crashRec' = IF \E t \in Tasks : InCommit(t)
                 THEN [in |-> TRUE, pre |-> cpre, post |-> cpost]
                 ELSE NoCommit
  /\ UNCHANGED <<ops, prevPrimary>>

AtomicNames == {"update_item", "set_item", "delete_item", "rmw"}

\* After a commit through atomic_operation the primary file is removed and a
\* new StateStorage is created on the same path.
RemovePrimary ==
  /\ crashes < MaxCrashes
  /\ running = 0
  /\ phase = "run"
  /\ \A t \in Tasks : pc[t] = "idle"
  /\ \E t \in Tasks : op[t].name \in AtomicNames /\ res[t] = "ok"
  /\ Exists("primary")
  /\ Restart([files EXCEPT !.primary = 0], disk)
  /\ phase' = "removed"
  /\ crashRec' = [in |-> FALSE, pre |-> durable, post |-> durable]
  /\ UNCHANGED <<ops, prevPrimary>>

\* ------------------------------------------------------ the serial store
InitOp == [name |-> "initialize", key |-> "-", val |-> EmptyFn]

KeyOps == {[name |-> n, key |-> k, val |-> EmptyFn] : n \in {"get_item", "delete_item"}, k \in Keys}

ValOps == {[name |-> n, key |-> k, val |-> v] : n \in {"update_item", "set_item"}, k \in Keys, v \in UpdateVals}

StoreOps == {InitOp} \cup KeyOps \cup ValOps

\* The operations that bring an uninitialised store up.
BootNames == {"initialize", "get_item", "update_item"}

CallStore(t) ==
  \E o \in StoreOps :
    /\ phase \in {"boot", "crashed", "removed"} => o.name \in BootNames
    /\ Call(t, o)

Init ==
  /\ FreshMemory
  /\ FreshTasks
  /\ FreshHistory
  /\ FreshJobs
  /\ FreshExt
  /\ InitDirectory
  /\ ops = [t \in Tasks |-> IF t = 1 THEN MaxOps ELSE 0]

Next ==
  \/ \E t \in Tasks :
       \/ CallStore(t)
       \/ Start(t)
       \/ ICheck(t)
       \/ IOpen(t)
       \/ IOpened(t)
       \/ IRead(t)
       \/ ILoad(t)
       \/ IClosed(t)
       \/ IDone(t)
       \/ Lock(t)
       \/ Body(t)
       \/ SOpen(t)
       \/ SWrite(t)
       \/ SFlush(t)
       \/ SRename1(t)
       \/ SRename2(t)
       \/ Unlock(t)
  \/ Crash
  \/ RemovePrimary

Spec == Init /\ [][Next]_vars

\* ------------------------------------------- a body that raises
\* One caller of an initialised store: writes, reads, and atomic operations
\* whose body raises after its assignment.
MaxAbortOps == 3

AbortOps == {[name |-> "abort", key |-> k, val |-> v] : k \in Keys, v \in UpdateVals}

CallAbort(t) == \E o \in (StoreOps \ {InitOp}) \cup AbortOps : Call(t, o)

InitAbort ==
  /\ \E d \in InitDicts :
       /\ state = d
       /\ disk = [i \in Inodes |-> IF i = 1 THEN Json(d) ELSE EmptyFile]
  /\ initialized = TRUE
  /\ lazy = FALSE
  /\ lock = 0
  /\ waiters = <<>>
  /\ files = [primary |-> 1, backup |-> 0, temp |-> 0]
  /\ FreshTasks
  /\ FreshHistory
  /\ FreshJobs
  /\ FreshExt
  /\ ops = [t \in Tasks |-> IF t = 1 THEN MaxAbortOps ELSE 0]

NextAbort ==
  \E t \in Tasks :
    \/ CallAbort(t)
    \/ Start(t)
    \/ Lock(t)
    \/ Body(t)
    \/ SOpen(t)
    \/ SWrite(t)
    \/ SFlush(t)
    \/ SRename1(t)
    \/ SRename2(t)
    \/ Unlock(t)

SpecAbort == InitAbort /\ [][NextAbort]_vars

\* ------------------------------------- concurrent read-modify-writes
\* Every task increments the same counter inside atomic_operation, awaiting
\* between its read and its write, on a store that initialize has brought up in
\* an empty directory.
RmwOp == [name |-> "rmw", key |-> "k1", val |-> EmptyFn]

CallRmw(t) == Call(t, RmwOp)

InitAtomic ==
  /\ state = EmptyDict
  /\ initialized = TRUE
  /\ lazy = FALSE
  /\ lock = 0
  /\ waiters = <<>>
  /\ files = [primary |-> 1, backup |-> 0, temp |-> 0]
  /\ disk = [i \in Inodes |-> IF i = 1 THEN Json(EmptyDict) ELSE EmptyFile]
  /\ FreshTasks
  /\ FreshHistory
  /\ FreshJobs
  /\ FreshExt
  /\ ops = [t \in Tasks |-> RmwEach]

NextAtomic ==
  \E t \in Tasks :
    \/ CallRmw(t)
    \/ Start(t)
    \/ Lock(t)
    \/ Wake(t)
    \/ Body(t)
    \/ RmwWrite(t)
    \/ SOpen(t)
    \/ SWrite(t)
    \/ SFlush(t)
    \/ SRename1(t)
    \/ SRename2(t)
    \/ Unlock(t)

SpecAtomic == InitAtomic /\ [][NextAtomic]_vars

\* ------------------------------------------------ concurrent start-up
\* Several requests reach a store nobody has initialised yet.
ConcOps ==
  {InitOp,
   [name |-> "get_item", key |-> "k1", val |-> EmptyFn],
   [name |-> "update_item", key |-> "k1", val |-> [progress |-> 1]]}

CallConc(t) == \E o \in ConcOps : Call(t, o)

InitConc ==
  /\ FreshMemory
  /\ FreshTasks
  /\ FreshHistory
  /\ FreshJobs
  /\ FreshExt
  /\ files = [primary |-> 0, backup |-> 0, temp |-> 0]
  /\ disk = [i \in Inodes |-> EmptyFile]
  /\ ops = [t \in Tasks |-> 1]

NextConc ==
  \E t \in Tasks :
    \/ CallConc(t)
    \/ Start(t)
    \/ ICheck(t)
    \/ IOpen(t)
    \/ IOpened(t)
    \/ IRead(t)
    \/ ILoad(t)
    \/ IClosed(t)
    \/ IDone(t)
    \/ IFail(t)
    \/ Lock(t)
    \/ Wake(t)
    \/ Body(t)
    \/ SOpen(t)
    \/ SWrite(t)
    \/ SFlush(t)
    \/ SRename1(t)
    \/ SRename2(t)
    \/ Unlock(t)

SpecConc == InitConc /\ [][NextConc]_vars

\* ------------------------------------------------ updates of one record
\* Every task updates the record of the one job, each with a progress of its
\* own, on a store that is up or that the first call has to bring up.
OrderOps == {[name |-> "update_item", key |-> "k1", val |-> [progress |-> v]] : v \in Tasks}

CallOrder(t) == \E o \in OrderOps : o.val.progress = t /\ Call(t, o)

InitOrder ==
  /\ state = EmptyDict
  /\ lazy = FALSE
  /\ lock = 0
  /\ waiters = <<>>
  /\ \E up \in BOOLEAN :
       /\ initialized = up
       /\ files = [primary |-> IF up THEN 1 ELSE 0, backup |-> 0, temp |-> 0]
       /\ disk = [i \in Inodes |-> IF up /\ i = 1 THEN Json(EmptyDict) ELSE EmptyFile]
  /\ FreshTasks
  /\ FreshHistory
  /\ FreshJobs
  /\ failed = NoFailed
  /\ dl = NoDownload
  /\ hook = NoHook
  /\ cm = NoCleanup
  /\ order = [NoOrder EXCEPT !.on = TRUE]
  /\ ops = [t \in Tasks |-> 1]

NextOrder ==
  \E t \in Tasks :
    \/ CallOrder(t)
    \/ Start(t)
    \/ ICheck(t)
    \/ IDone(t)
    \/ Lock(t)
    \/ Wake(t)
    \/ Body(t)
    \/ SOpen(t)
    \/ SWrite(t)
    \/ SFlush(t)
    \/ SRename1(t)
    \/ SRename2(t)
    \/ Unlock(t)

SpecOrder == InitOrder /\ [][NextOrder]_vars

\* ------------------------------------------------------- download jobs
\* Job records as app.py and utils.py write them.  Every write goes through
\* update_item or delete_item, whose commit is modelled above; here a write is
\* one step on the in-memory map.  Of a record's fields the model keeps those
\* some operation reads: status, progress, error, updated_at, timestamp and
\* file_path.
Terminal == {"completed", "error", "cancelled", "expired"}

\* f"download_{download_id}"
Prefixed(j) == IF j = "a" THEN "download_a" ELSE "download_b"

\* download_id.startswith("download_")
StartsWithDownload(k) == k \in {Prefixed(j) : j \in JobIds}

JobKeys == JobIds \cup {Prefixed(j) : j \in JobIds}

\* update_download_status: get_item, then the fields are set on the record the
\* store handed out, and update_item merges it back; nothing when the record
\* is absent.
UpdateDownloadStatus(d, k, upd) ==
  IF Has(d, k) THEN Put(d, k, Merge(d.val[k], upd)) ELSE d

\* The age periodic_downloads_cleanup computes: from created_at when that is
\* a string datetime.fromisoformat accepts; else (a float, as start_download
\* writes it, another string, or no created_at) from updated_at, and a record
\* without updated_at has age zero.
SweepAge(r) ==
  now - (IF "created_at" \in DOMAIN r /\ r.created_at.fmt = "iso" THEN r.created_at.t
         ELSE IF "updated_at" \in DOMAIN r THEN r.updated_at
         ELSE now)

\* age_minutes > 30, age > max_age_seconds: at least one tick has passed
TooOld(age) == age >= 1

\* value.get("timestamp") or value.get("updated_at") or value.get("created_at");
\* created_at is only ever written together with updated_at
ItemTime(r) ==
  IF "timestamp" \in DOMAIN r THEN r.timestamp
  ELSE IF "updated_at" \in DOMAIN r THEN r.updated_at
  ELSE now

\* The map without the keys in S, the others in their order.
Without(d, S) ==
  [keys |-> SelectSeq(d.keys, LAMBDA k : k \notin S),
   val |-> [k \in (DOMAIN d.val) \ S |-> d.val[k]]]

JobSideStore == <<initialized, lazy, lock, waiters, files, disk, taskVars, histVars>>

JobSide == <<JobSideStore, extVars>>

\* POST /api/download
StartDownload(j) ==
  /\ jobs[j].pc = "none"
  /\ state' = UpdateItemBody(state, j,
                [status |-> "pending", progress |-> 0, updated_at |-> now])
  /\ jobs' = [jobs EXCEPT ![j].pc = "pending"]
  /\ UNCHANGED <<queue, media, now, sweep, active_downloads, JobSide>>

\* process_download: the "starting" write
ProcessStart(j) ==
  /\ jobs[j].pc = "pending"
  /\ state' = UpdateItemBody(state, j, [status |-> "starting", progress |-> 0, updated_at |-> now])
  /\ jobs' = [jobs EXCEPT ![j].pc = "starting"]
  /\ UNCHANGED <<queue, media, now, sweep, active_downloads, JobSide>>

\* process_download: the "downloading" write; a Loom URL also gets a progress
\* file and the task update_progress_from_file
ProcessDownloading(j, loom) ==
  /\ jobs[j].pc = "starting"
  /\ state' = UpdateItemBody(state, j, [status |-> "downloading", progress |-> 0, updated_at |-> now])
  /\ jobs' = [jobs EXCEPT ![j].pc = "downloading",
                          ![j].poll = IF loom THEN "spawned" ELSE "none"]
  /\ UNCHANGED <<queue, media, now, sweep, active_downloads, JobSide>>

\* process_download reads a progress line of the Loom subprocess: create_task
\* of an update_item, and the percentage goes to the progress file.  The loop
\* does not await, so the task waits.
ProgressLine(j, p) ==
  /\ jobs[j].pc = "downloading"
  /\ jobs[j].poll # "none"
  /\ p > jobs[j].pfile
  /\ Len(queue) < MaxQueue
  /\ queue' = Append(queue, [key |-> j,
                             val |-> [status |-> "downloading", progress |-> p, updated_at |-> now]])
  /\ jobs' = [jobs EXCEPT ![j].pfile = p]
  /\ UNCHANGED <<state, media, now, sweep, active_downloads, JobSide>>

\* process_download: the file is there, the "completed" write
ProcessCompleted(j) ==
  /\ jobs[j].pc = "downloading"
  /\ state' = UpdateItemBody(state, j,
                [status |-> "completed", progress |-> 100, file_path |-> j, updated_at |-> now])
  /\ media' = media \cup {j}
  /\ jobs' = [jobs EXCEPT ![j].pc = "completed"]
  /\ UNCHANGED <<queue, now, sweep, active_downloads, JobSide>>

\* process_download: the download raised, the "error" write
ProcessFailed(j) ==
  /\ jobs[j].pc = "downloading"
  /\ state' = UpdateItemBody(state, j, [status |-> "error", updated_at |-> now])
  /\ jobs' = [jobs EXCEPT ![j].pc = "failed"]
  /\ UNCHANGED <<queue, media, now, sweep, active_downloads, JobSide>>

\* The oldest waiting update_item task runs, once process_download has reached
\* its await.
RunQueued ==
  /\ queue # <<>>
  /\ jobs[Head(queue).key].pc \in {"completed", "failed"}
  /\ state' = UpdateItemBody(state, Head(queue).key, Head(queue).val)
  /\ queue' = Tail(queue)
  /\ UNCHANGED <<jobs, media, now, sweep, active_downloads, JobSide>>

\* update_progress_from_file starts running: progress 1
PollFirst(j) ==
  /\ jobs[j].poll = "spawned"
  /\ jobs[j].pc \in {"completed", "failed"}
  /\ state' = UpdateDownloadStatus(state, j,
                [status |-> "downloading", progress |-> 1, updated_at |-> now])
  /\ jobs' = [jobs EXCEPT ![j].poll = "looping"]
  /\ UNCHANGED <<queue, media, now, sweep, active_downloads, JobSide>>

\* update_progress_from_file's loop: what the progress file says
PollLoop(j) ==
  /\ jobs[j].poll = "looping"
  /\ state' = UpdateDownloadStatus(state, j,
                [status |-> "downloading", progress |-> jobs[j].pfile, updated_at |-> now])
  /\ UNCHANGED <<jobs, queue, media, now, sweep, active_downloads, JobSide>>

\* POST /api/cancel/{download_id}, for any id a client sends: 404 unless the
\* record download_<id> is there; else the handle in active_downloads, if there
\* is one, is cancelled and dropped, and update_download_status writes the
\* record <id>.  reply is the HTTP status, term whether a handle was cancelled.
CancelDownload(j) ==
  /\ jobs[j].cancels < MaxCancels
  /\ LET found == Has(state, Prefixed(j))
     IN /\ jobs' = [jobs EXCEPT ![j].cancels = @ + 1,
                                ![j].reply = IF found THEN "200" ELSE "404",
                                ![j].term = found /\ j \in active_downloads]
        /\ active_downloads' = IF found THEN active_downloads \ {j} ELSE active_downloads
        /\ state' = IF found
                    THEN UpdateDownloadStatus(state, j,
                           [status |-> "cancelled", progress |-> 0, error |-> "cancelled", updated_at |-> now])
                    ELSE state
  /\ UNCHANGED <<queue, media, now, sweep, JobSide>>

\* What a caller hands to update_download_state_sync.
SyncStates(j) ==
  {[status |-> "downloading", progress |-> 50, updated_at |-> now],
   [status |-> "completed", progress |-> 100, updated_at |-> now, file_path |-> j]}

\* update_download_state_sync: the timestamp is added, the key is prefixed
SyncUpdate(j) ==
  /\ jobs[j].pc # "none"
  /\ jobs[j].syncs < MaxCalls
  /\ jobs' = [jobs EXCEPT ![j].syncs = @ + 1]
  /\ \E st \in SyncStates(j) :
       state' = UpdateItemBody(state, Prefixed(j), Merge(st, [timestamp |-> now]))
  /\ UNCHANGED <<queue, media, now, sweep, active_downloads, JobSide>>

Tick ==
  /\ now < MaxTime
  /\ now' = now + 1
  /\ UNCHANGED <<state, jobs, queue, media, sweep, active_downloads, JobSide>>

\* periodic_downloads_cleanup: get_all_items hands out the live dict and the
\* for loop starts to iterate over it
SweepBegin ==
  /\ ~sweep.on
  /\ sweep.passes < MaxPasses
  /\ sweep' = [on |-> TRUE, pos |-> 1, used |-> Len(state.keys), passes |-> sweep.passes + 1,
               missing |-> FALSE,
               qual |-> {k \in DOMAIN state.val :
                           /\ "status" \in DOMAIN state.val[k]
                           /\ state.val[k].status = "completed"
                           /\ TooOld(SweepAge(state.val[k]))}]
  /\ UNCHANGED <<state, jobs, queue, media, now, active_downloads, JobSide>>

\* file_path and os.path.exists(file_path)
FileThere(r) == "file_path" \in DOMAIN r /\ r.file_path \in media

\* periodic_downloads_cleanup: one turn of the loop.  The iterator raises
\* RuntimeError when the dict has changed size, which ends the pass.
SweepStep ==
  /\ sweep.on
  /\ IF Len(state.keys) # sweep.used \/ sweep.pos > Len(state.keys)
     THEN /\ sweep' = [sweep EXCEPT !.on = FALSE, !.pos = 0, !.used = 0]
          /\ UNCHANGED <<state, media>>
     ELSE LET k == state.keys[sweep.pos]
              r == state.val[k]
          IN IF StartsWithDownload(k) /\ TooOld(SweepAge(r))
             THEN /\ media' = IF "file_path" \in DOMAIN r THEN media \ {r.file_path} ELSE media
                  /\ state' = DeleteItemBody(state, k)
                  /\ sweep' = [sweep EXCEPT !.missing = @ \/ ("file_path" \in DOMAIN r /\ ~FileThere(r))]
             ELSE /\ sweep' = [sweep EXCEPT !.pos = @ + 1]
                  /\ UNCHANGED <<state, media>>
  /\ UNCHANGED <<jobs, queue, now, active_downloads, JobSide>>

\* get_all_items returns self.state, the dict object itself: what the name
\* `downloads` of periodic_downloads_cleanup denotes during a pass is the
\* store's map as it is now.
Downloads == state

\* StateStorage.cleanup_old_items with its default age
CleanupOldItems ==
  /\ state' = Without(state, {k \in DOMAIN state.val : TooOld(now - ItemTime(state.val[k]))})
  /\ UNCHANGED <<jobs, queue, media, now, sweep, active_downloads, JobSide>>

\* What an answer of /api/progress carries of a record.
ProgressEvent(r) == [status |-> r.status, progress |-> r.progress]

\* GET /api/progress/{download_id}, as a client that reads the answer as a
\* stream of events sends it: get_progress looks the record up once and
\* returns one JSON object, or raises 404; the answer is complete and the
\* connection is done.
GetProgress(j) ==
  /\ jobs[j].stream = "none"
  /\ jobs' = [jobs EXCEPT ![j].stream = "closed",
                          ![j].events = IF Has(state, j)
                                        THEN Append(@, ProgressEvent(state.val[j]))
                                        ELSE @]
  /\ UNCHANGED <<state, queue, media, now, sweep, active_downloads, JobSide>>

InitJobs ==
  /\ state = EmptyDict
  /\ initialized = TRUE
  /\ lazy = FALSE
  /\ lock = 0
  /\ waiters = <<>>
  /\ files = [primary |-> 1, backup |-> 0, temp |-> 0]
  /\ disk = [i \in Inodes |-> IF i = 1 THEN Json(EmptyDict) ELSE EmptyFile]
  /\ FreshTasks
  /\ FreshHistory
  /\ FreshJobs
  /\ FreshExt
  /\ ops = [t \in Tasks |-> 0]

\* One job from its submission on, with its progress tasks, its poller and the
\* client's cancel requests.
Tracked == {"a"}

NextJobs ==
  \/ \E j \in Tracked :
       \/ StartDownload(j)
       \/ ProcessStart(j)
       \/ \E loom \in BOOLEAN : ProcessDownloading(j, loom)
       \/ \E p \in {50, 99} : ProgressLine(j, p)
       \/ ProcessCompleted(j)
       \/ ProcessFailed(j)
       \/ PollFirst(j)
       \/ PollLoop(j)
       \/ SyncUpdate(j)
  \/ \E j \in JobIds : CancelDownload(j)
  \/ \E j \in Tracked : GetProgress(j)
  \/ RunQueued
  \/ Tick

SpecJobs == InitJobs /\ [][NextJobs]_vars

\* Several jobs of other services, time passing, and the two eviction passes.
NextEvict ==
  \/ \E j \in JobIds :
       \/ StartDownload(j)
       \/ ProcessStart(j)
       \/ ProcessDownloading(j, FALSE)
       \/ ProcessCompleted(j)
       \/ ProcessFailed(j)
       \/ SyncUpdate(j)
  \/ Tick
  \/ SweepBegin
  \/ SweepStep
  \/ CleanupOldItems

SpecEvict == InitJobs /\ [][NextEvict]_vars

\* ------------------------------------------------ download.py: retries
\* download_video and cancel_download work on a DownloadState object that the
\* caller holds; both are coroutines, so cancel_download can run whenever
\* download_video is suspended in an await.
DownloadStatus ==
  {"initializing", "pending", "downloading", "converting", "processing",
   "completed", "error", "expired", "retrying", "cancelled"}

\* What the POST of _attempt_download can come to: a 2xx answer with a JSON
\* object that has a file_path ("ok") or has none ("okbare", what POST
\* /api/download of app.py answers), a 2xx answer whose body does not parse, a
\* timeout, a 5xx or another non-2xx answer, an httpx error that carries no
\* response, any other exception.
HttpOutcomes ==
  {"ok", "okbare", "badbody", "timeout", "status5xx", "status4xx", "noresponse", "other"}

\* _attempt_download: its result or the exception that leaves it.  An httpx
\* error without a response fails at e.response inside the except clause, and
\* that AttributeError leaves the function.
AttemptDownload(h) ==
  CASE h \in {"ok", "okbare", "badbody"} -> "response"
    [] h \in {"timeout", "status5xx"} -> "NetworkError"
    [] h = "status4xx" -> "ValidationError"
    [] h = "noresponse" -> "AttributeError"
    [] OTHER -> "ProcessingError"

\* str(e) of what the attempt raised
ErrorText(h, prefix) == [prefix |-> prefix, msg |-> h]

\* DownloadState.update_status; `if error:` keeps the old text for None
UpdateStatus(st, new_status, error) ==
  [st EXCEPT !.status = new_status, !.error = IF error = NoError THEN @ ELSE error]

\* A retry counter that a failure leaves as it was.
IncrementRetryKept(st) == st

\* DownloadState.increment_retry: self.retry_count += 1
IncrementRetry(st) == [st EXCEPT !.retry_count = @ + 1]

\* A retry test that stops one failure early.
CanRetryStrict(st) == st.retry_count < st.max_retries

\* DownloadState.increment_retry: return self.retry_count <= self.max_retries
CanRetry(st) == st.retry_count <= st.max_retries

\* A handler that retries validation errors too.
RetryableAll(r) == r \in {"NetworkError", "ProcessingError", "ValidationError"}

\* except (NetworkError, ProcessingError)
Retryable(r) == r \in {"NetworkError", "ProcessingError"}

\* A cancel that refuses nothing.
CancelRefusedNever(status) == FALSE

\* cancel_download: state.status in [COMPLETED, ERROR, EXPIRED]
CancelRefused(status) == status \in {"completed", "error", "expired"}

\* History counters stop one past the largest value the loop can reach.
Bump(n) == IF n <= MaxRetries + 1 THEN n + 1 ELSE n

\* download_video, top of the loop: update_status(DOWNLOADING), then the
\* attempt is awaited
DlAttempt ==
  /\ dl.pc \in {"ready", "sleep"}
  /\ dl' = [dl EXCEPT !.st = UpdateStatus(@, "downloading", NoError),
                      !.pc = "attempt",
                      !.attempts = Bump(@)]
  /\ UNCHANGED <<storeVars, taskVars, histVars, jobVars, failed, hook, order, cm>>

\* download_video: the awaited attempt comes back, and the try statement's
\* branch for it runs up to the next await, return or raise
DlOutcome(h) ==
  /\ dl.pc = "attempt"
  /\ LET r == AttemptDownload(h)
         counted == IncrementRetry(dl.st)
     IN dl' =
          CASE r = "response" /\ h \in {"ok", "okbare"} ->
                 [dl EXCEPT !.st = UpdateStatus(
                                     [@ EXCEPT !.progress = 100,
                                               !.file_path = IF h = "ok" THEN "file" ELSE "none"],
                                     "completed", NoError),
                            !.pc = "returned", !.last = h]
            [] Retryable(r) /\ CanRetry(counted) ->
                 [dl EXCEPT !.st = UpdateStatus(counted, "retrying", ErrorText(h, "")),
                            !.pc = "sleep", !.last = h,
                            !.fails = Bump(@), !.retried = Bump(@)]
            [] Retryable(r) /\ ~CanRetry(counted) ->
                 [dl EXCEPT !.st = UpdateStatus(counted, "error", ErrorText(h, "exceeded")),
                            !.pc = "raised", !.last = h, !.exc = r,
                            !.fails = Bump(@)]
            [] ~Retryable(r) /\ r = "ValidationError" ->
                 [dl EXCEPT !.st = UpdateStatus(@, "error", ErrorText(h, "")),
                            !.pc = "raised", !.last = h, !.exc = r]
            [] OTHER ->
                 [dl EXCEPT !.st = UpdateStatus(@, "error", ErrorText(h, "internal")),
                            !.pc = "raised", !.last = h, !.exc = "ProcessingError"]
  /\ UNCHANGED <<storeVars, taskVars, histVars, jobVars, failed, hook, order, cm>>

\* download.cancel_download on the same DownloadState
DlCancel ==
  /\ dl.pc # "none"
  /\ dl.cancels < MaxCancels
  /\ dl' = IF CancelRefused(dl.st.status)
           THEN [dl EXCEPT !.cancels = @ + 1, !.cout = "ValidationError", !.cbefore = dl.st]
           ELSE [dl EXCEPT !.cancels = @ + 1, !.cout = "returned", !.cbefore = dl.st,
                           !.st = UpdateStatus(@, "cancelled", NoError)]
  /\ UNCHANGED <<storeVars, taskVars, histVars, jobVars, failed, hook, order, cm>>

\* A caller holds a DownloadState in any status, no retry counted yet, and may
\* call download_video once and cancel_download.
InitDownload ==
  /\ state = EmptyDict
  /\ initialized = TRUE
  /\ lazy = FALSE
  /\ lock = 0
  /\ waiters = <<>>
  /\ files = [primary |-> 1, backup |-> 0, temp |-> 0]
  /\ disk = [i \in Inodes |-> IF i = 1 THEN Json(EmptyDict) ELSE EmptyFile]
  /\ FreshTasks
  /\ FreshHistory
  /\ FreshJobs
  /\ ops = [t \in Tasks |-> 0]
  /\ failed = NoFailed
  /\ hook = NoHook
  /\ cm = NoCleanup
  /\ order = NoOrder
  /\ \E s \in DownloadStatus, p \in {0, 50}, m \in 0..MaxRetries :
       dl = [NoDownload EXCEPT !.st = DownloadState(s, p, m), !.pc = "ready",
                               !.cbefore = DownloadState(s, p, m)]

NextDownload ==
  \/ DlAttempt
  \/ \E h \in HttpOutcomes : DlOutcome(h)
  \/ DlCancel

SpecDownload == InitDownload /\ [][NextDownload]_vars

\* The attempt is bounded by its 30 s timeout and the back-off sleep ends, so
\* a suspended download_video is always resumed.
LiveDownload ==
  /\ SpecDownload
  /\ WF_vars(DlAttempt)
  /\ WF_vars(\E h \in HttpOutcomes : DlOutcome(h))

\* ------------------------------------------------------- progress hooks
\* The two yt-dlp progress hooks of utils.py and the records they write.  A
\* hook is handed the download id it was built for and gets one dict per
\* progress report of the downloader.
Bytes == {0, 40, 50, 150}

Totals == {0, 100}

\* a fragment index and a fragment count, 0 when the report has none
FragmentIndexes == {0, 1, 3}

FragmentCounts == {0, 2}

\* What yt-dlp reports: d['status'] and, when downloading, the byte and
\* fragment counters (0 stands for a key that is missing or None).
Reports ==
  [status : {"downloading"}, downloaded_bytes : Bytes, total_bytes : Totals,
   total_bytes_estimate : Totals, fragment_index : FragmentIndexes,
   fragment_count : FragmentCounts]
  \cup {[status |-> s, downloaded_bytes |-> 0, total_bytes |-> 0, total_bytes_estimate |-> 0,
          fragment_index |-> 0, fragment_count |-> 0] : s \in {"finished", "error"}}

\* d.get('total_bytes') or d.get('total_bytes_estimate', 0)
TotalOf(d) == IF d.total_bytes # 0 THEN d.total_bytes ELSE d.total_bytes_estimate

\* (downloaded / total * 100) if total else 0
Percent(downloaded, total) == IF total # 0 THEN (downloaded * 100) \div total ELSE 0

Min(a, b) == IF a <= b THEN a ELSE b

\* get_safe_ydl_opts.progress_hook: the arguments it passes to
\* update_download_status; a progress of None is a field left out
ProgressHook(d) ==
  CASE d.status = "downloading" ->
         [status |-> "downloading", progress |-> Percent(d.downloaded_bytes, TotalOf(d))]
    [] d.status = "finished" -> [status |-> "completed", progress |-> 100]
    [] d.status = "error" -> [status |-> "error", error |-> "hook"]

\* download_loom_video.progress_hook: the number it writes to the progress
\* file, given the number the file holds
LoomProgressHook(d, current_progress) ==
  CASE d.status = "finished" -> 98
    [] d.status = "downloading" /\ d.fragment_count > 0 ->
         Min(90, 5 + ((d.fragment_index * 85) \div d.fragment_count))
    [] d.status = "downloading" /\ TotalOf(d) > 0 ->
         Min(90, 5 + ((d.downloaded_bytes * 85) \div TotalOf(d)))
    [] d.status = "downloading" -> Min(90, current_progress + 1)
    [] OTHER -> current_progress

MaxSamples == 3

\* a downloading report with neither a positive fragment count nor a positive
\* total or estimated total
NoTotal(d) == d.status = "downloading" /\ d.fragment_count = 0 /\ TotalOf(d) = 0

\* what update_download_status committed: the record's progress after the write
Committed(d, k) == IF Has(d, k) THEN <<d.val[k].progress>> ELSE <<>>

\* get_safe_ydl_opts.progress_hook runs for one report
HookReport(d) ==
  /\ hook.key # "-"
  /\ hook.samples < MaxSamples
  /\ state' = UpdateDownloadStatus(state, hook.key, Merge(ProgressHook(d), [updated_at |-> now]))
  /\ hook' = [hook EXCEPT !.samples = @ + 1, !.last = d.status, !.blind = NoTotal(d),
                          !.committed = @ \o Committed(state', hook.key)]
  /\ UNCHANGED <<jobVars, failed, dl, order, cm, JobSideStore>>

\* download_loom_video.progress_hook runs for one report: the progress file
HookLoomReport(d) ==
  /\ hook.key # "-"
  /\ hook.samples < MaxSamples
  /\ hook' = [hook EXCEPT !.samples = @ + 1, !.last = d.status, !.blind = NoTotal(d),
                          !.file = LoomProgressHook(d, hook.file)]
  /\ UNCHANGED <<state, jobVars, failed, dl, order, cm, JobSideStore>>

\* download_loom_video.update_progress_task: what the progress file holds is
\* written to the record
HookLoomPoll ==
  /\ hook.key # "-"
  /\ hook.file # 0
  /\ Committed(state, hook.key) # <<hook.file>>
  /\ state' = UpdateDownloadStatus(state, hook.key,
                [status |-> "downloading", progress |-> hook.file, updated_at |-> now])
  /\ hook' = [hook EXCEPT !.committed = @ \o Committed(state', hook.key)]
  /\ UNCHANGED <<jobVars, failed, dl, order, cm, JobSideStore>>

\* A download with a hook on a job whose record is in the store, pending.
InitHook ==
  /\ initialized = TRUE
  /\ lazy = FALSE
  /\ lock = 0
  /\ waiters = <<>>
  /\ files = [primary |-> 1, backup |-> 0, temp |-> 0]
  /\ FreshTasks
  /\ FreshHistory
  /\ FreshJobs
  /\ ops = [t \in Tasks |-> 0]
  /\ failed = NoFailed
  /\ dl = NoDownload
  /\ order = NoOrder
  /\ \E k \in {"a", Prefixed("a")} :
       /\ hook = [NoHook EXCEPT !.key = k]
       /\ cm = NoCleanup
       /\ state = Put(EmptyDict, k, [status |-> "pending", progress |-> 0, updated_at |-> 1])
       /\ disk = [i \in Inodes |-> IF i = 1 THEN Json(state) ELSE EmptyFile]

NextHook ==
  \/ \E d \in Reports : HookReport(d)
  \/ \E d \in Reports : HookLoomReport(d)
  \/ HookLoomPoll

SpecHook == InitHook /\ [][NextHook]_vars

\* ------------------------------------------------------- CleanupManager
\* cleanup_manager.py: a task that clears the downloads directory and the logs
\* directory of old files, over and over.  An entry of a directory is new (its
\* mtime lies less than max_age_hours back), due (exactly max_age_hours), old
\* (more) or gone.  Which entries a directory has is part of the state.
DownloadsDir ==
  {"video.mp4", "video.mp4.part", "state.json", "state.json.backup", "state.json.temp",
   ".progress", "logs", "subdir"}

LogsDir == {"app.log", "notes.txt"}

\* What the directory listing fs has under the name f.
Entry(fs, f) == IF f \in DOMAIN fs THEN fs[f] ELSE "gone"

\* os.path.isfile: logs and subdir are directories
IsFile(f) == f \notin {"logs", "subdir"}

\* filename.endswith('.json')
EndsWithJson(f) == f \in {"state.json"}

\* filename.startswith('.')
StartsWithDot(f) == f \in {".progress"}

\* filename.endswith('.json') or filename.startswith('.') or filename == 'logs'
SkippedDownload(f) == EndsWithJson(f) \/ StartsWithDot(f) \/ f = "logs"

\* current_time - stat.st_mtime >= max_age_seconds
OlderOrDue(a) == a \in {"due", "old"}

\* current_time - stat.st_mtime > max_age_seconds
OlderThanMax(a) == a = "old"

\* filename.endswith('.log')
EndsWithLog(f) == f \in {"app.log"}

\* The files a pass is to delete: what cleanup_downloads and cleanup_logs look at.
Cleaned ==
  {f \in DownloadsDir : ~SkippedDownload(f) /\ IsFile(f)} \cup {f \in LogsDir : EndsWithLog(f) /\ IsFile(f)}

MaxFaults == 2

\* a count that stops at two: none, one, several
Counted(n) == Min(2, n + 1)

\* What one of the two directory clean-ups leaves: nothing changes when listdir
\* raised; otherwise every old file it looks at is removed, but for those whose
\* stat or remove raised.
CleanupDir(fs, looked, listed, raising) ==
  [f \in DOMAIN fs |-> IF listed /\ f \in looked /\ OlderThanMax(fs[f]) /\ f \notin raising
                        THEN "gone" ELSE fs[f]]

\* cleanup_downloads(max_age_hours) on the entries fs
CleanupDownloads(fs, listed, raising) ==
  CleanupDir(fs, {f \in DownloadsDir : ~SkippedDownload(f) /\ IsFile(f)}, listed, raising)

\* cleanup_logs(max_age_hours) on the entries fs
CleanupLogs(fs, listed, raising) ==
  CleanupDir(fs, {f \in LogsDir : EndsWithLog(f) /\ IsFile(f)}, listed, raising)

\* the entries whose stat or remove may raise in a pass over the looked-at ones
MayRaise(fs, looked) == {f \in looked \cap DOMAIN fs : OlderThanMax(fs[f])}

\* start(cleanup_interval): unless _cleanup_task is a task that is not done,
\* create_task(_periodic_cleanup), whose first statement is cleanup_all
CmStart ==
  /\ cm.task \in {"none", "done"}
  /\ cm' = [cm EXCEPT !.task = "downloads", !.passes = 0, !.slept = 0]
  /\ UNCHANGED <<storeVars, taskVars, histVars, jobVars, failed, dl, hook, order>>

\* cleanup_downloads: exceptions of listdir and of single files are logged
CmDownloads(listed, raising) ==
  /\ cm.task = "downloads"
  /\ raising \subseteq MayRaise(cm.files, {f \in DownloadsDir : ~SkippedDownload(f) /\ IsFile(f)})
  /\ listed \/ raising = {}
  /\ (~listed \/ raising # {}) => cm.faults < MaxFaults
  /\ cm' = [cm EXCEPT !.task = "logs",
                      !.files = CleanupDownloads(@, listed, raising),
                      !.faults = IF ~listed \/ raising # {} THEN @ + 1 ELSE @]
  /\ UNCHANGED <<storeVars, taskVars, histVars, jobVars, failed, dl, hook, order>>

\* cleanup_logs, after which cleanup_all returns and the loop sleeps
CmLogs(listed, raising) ==
  /\ cm.task = "logs"
  /\ raising \subseteq MayRaise(cm.files, {f \in LogsDir : EndsWithLog(f) /\ IsFile(f)})
  /\ listed \/ raising = {}
  /\ (~listed \/ raising # {}) => cm.faults < MaxFaults
  /\ cm' = [cm EXCEPT !.task = "sleep",
                      !.files = CleanupLogs(@, listed, raising),
                      !.faults = IF ~listed \/ raising # {} THEN @ + 1 ELSE @,
                      !.passes = Counted(@)]
  /\ UNCHANGED <<storeVars, taskVars, histVars, jobVars, failed, dl, hook, order>>

\* the loop would stop after its first pass
CmTimerEnds ==
  /\ cm.task = "sleep"
  /\ cm' = [cm EXCEPT !.task = "done", !.slept = Counted(@)]
  /\ UNCHANGED <<storeVars, taskVars, histVars, jobVars, failed, dl, hook, order>>

\* asyncio.sleep(interval) ends and while True goes round
CmTimer ==
  /\ cm.task = "sleep"
  /\ cm' = [cm EXCEPT !.task = "downloads", !.slept = Counted(@)]
  /\ UNCHANGED <<storeVars, taskVars, histVars, jobVars, failed, dl, hook, order>>

\* stop(): the task is cancelled wherever it is suspended, and forgotten
CmStop ==
  /\ cm.task \in {"downloads", "logs", "sleep"}
  /\ cm' = [cm EXCEPT !.task = "none"]
  /\ UNCHANGED <<storeVars, taskVars, histVars, jobVars, failed, dl, hook, order>>

\* time passes: a file's mtime comes to lie more than max_age_hours back
CmAge(f) ==
  /\ Entry(cm.files, f) \in {"new", "due"}
  /\ cm' = [cm EXCEPT !.files[f] = IF @ = "new" THEN "due" ELSE "old"]
  /\ UNCHANGED <<storeVars, taskVars, histVars, jobVars, failed, dl, hook, order>>

InitCleanup ==
  /\ FreshMemory
  /\ FreshTasks
  /\ FreshHistory
  /\ FreshJobs
  /\ files = [primary |-> 0, backup |-> 0, temp |-> 0]
  /\ disk = [i \in Inodes |-> EmptyFile]
  /\ ops = [t \in Tasks |-> 0]
  /\ failed = NoFailed
  /\ dl = NoDownload
  /\ hook = NoHook
  /\ order = NoOrder
  /\ \E fs \in [{"video.mp4", "state.json"} \cup LogsDir -> {"new", "old"}] :
       cm = [NoCleanup EXCEPT !.files = fs]

NextCleanup ==
  \/ CmStart
  \/ \E listed \in BOOLEAN, raising \in SUBSET Cleaned : CmDownloads(listed, raising)
  \/ \E listed \in BOOLEAN, raising \in SUBSET Cleaned : CmLogs(listed, raising)
  \/ CmTimer
  \/ CmStop
  \/ \E f \in DownloadsDir \cup LogsDir : CmAge(f)

SpecCleanup == InitCleanup /\ [][NextCleanup]_vars

\* cleanup_downloads(max_age_hours) is called on its own, as the wrapper
\* cleanup_downloads of app.py and the tests call it
CmCall ==
  /\ cm.task = "none"
  /\ cm' = [cm EXCEPT !.task = "direct"]
  /\ UNCHANGED <<storeVars, taskVars, histVars, jobVars, failed, dl, hook, order>>

\* that call runs and returns
CmDirect(listed, raising) ==
  /\ cm.task = "direct"
  /\ raising \subseteq MayRaise(cm.files, {f \in DownloadsDir : ~SkippedDownload(f) /\ IsFile(f)})
  /\ listed \/ raising = {}
  /\ (~listed \/ raising # {}) => cm.faults < MaxFaults
  /\ cm' = [cm EXCEPT !.task = "none",
                      !.files = CleanupDownloads(@, listed, raising),
                      !.faults = IF ~listed \/ raising # {} THEN @ + 1 ELSE @]
  /\ UNCHANGED <<storeVars, taskVars, histVars, jobVars, failed, dl, hook, order>>

\* cleanup_script.py: the names its loop passes over
SkippedScript(f) == SkippedDownload(f) \/ f = "lost+found"

\* cleanup_script.cleanup_downloads, run as a script on the downloads
\* directory: every regular file it does not pass over is removed, whatever
\* its age; a remove that raises is logged and the file stays.
ScriptCleanup(raising) ==
  /\ cm.task = "none"
  /\ raising \subseteq {f \in DownloadsDir : cm.files[f] # "gone"}
  /\ cm' = [cm EXCEPT !.files = [f \in DOMAIN @ |->
                                    IF ~SkippedScript(f) /\ IsFile(f) /\ f \notin raising
                                    THEN "gone" ELSE @[f]]]
  /\ UNCHANGED <<storeVars, taskVars, histVars, jobVars, failed, dl, hook, order>>

\* The files StateStorage keeps in the downloads directory: state_file,
\* _backup_file, _temp_file.
StoreFiles == {"state.json", "state.json.backup", "state.json.temp"}

\* A downloads directory with entries of every kind; the entries a clean-up
\* has to leave alone are old, the others of any age.
InitDir ==
  /\ FreshMemory
  /\ FreshTasks
  /\ FreshHistory
  /\ FreshJobs
  /\ files = [primary |-> 0, backup |-> 0, temp |-> 0]
  /\ disk = [i \in Inodes |-> EmptyFile]
  /\ ops = [t \in Tasks |-> 0]
  /\ failed = NoFailed
  /\ dl = NoDownload
  /\ hook = NoHook
  /\ order = NoOrder
  /\ \E fs \in [DownloadsDir -> {"new", "due", "old"}] :
       /\ \A f \in DownloadsDir : (SkippedDownload(f) \/ ~IsFile(f)) => fs[f] = "old"
       /\ cm = [NoCleanup EXCEPT !.files = fs]

NextDir ==
  \/ CmCall
  \/ \E listed \in BOOLEAN, raising \in SUBSET Cleaned : CmDirect(listed, raising)
  \/ \E raising \in SUBSET Cleaned : ScriptCleanup(raising)
  \/ \E f \in DownloadsDir : CmAge(f)

SpecDir == InitDir /\ [][NextDir]_vars

\* The event loop runs a task that is ready, and a sleep ends.
LiveCleanup ==
  /\ SpecCleanup
  /\ WF_vars(\E listed \in BOOLEAN, raising \in SUBSET Cleaned : CmDownloads(listed, raising))
  /\ WF_vars(\E listed \in BOOLEAN, raising \in SUBSET Cleaned : CmLogs(listed, raising))
  /\ WF_vars(CmTimer)

\* ------------------------------------------------------------- properties
\* C1: a crash at any point of _save_state leaves the store such that the next
\* initialize loads exactly the map held before the commit or exactly the map
\* the commit was writing, never a partial, empty or older one.
C1_CrashLeavesPreOrPost ==
  (phase = "recovered" /\ crashRec.in) => loaded.dict \in {crashRec.pre, crashRec.post}

\* C8: initialize loads the primary if it exists and parses; otherwise (primary
\* missing, unparsable, truncated or zero-length) the backup if it parses;
\* otherwise the empty map.
C8_LoadOrder ==
  loaded.done =>
    loaded.dict = IF loaded.primary.exists /\ loaded.primary.content.valid
                  THEN loaded.primary.content.dict
                  ELSE IF loaded.backup.exists /\ loaded.backup.content.valid
                       THEN loaded.backup.content.dict
                       ELSE EmptyDict

\* C9: when initialize has returned successfully the primary file exists and
\* holds exactly the in-memory map.
C9_PrimaryHoldsLoadedMap ==
  \A t \in Tasks :
    (pc[t] = "idle" /\ op[t].name = "initialize" /\ res[t] = "ok") =>
      /\ Exists("primary")
      /\ FileOf("primary").content.valid
      /\ FileOf("primary").content.dict = state

\* C10 as stated: after a commit through atomic_operation and the removal of
\* the primary file, a new StateStorage recovers from the backup the last
\* committed state.
C10_RecoversLastCommit ==
  phase = "restored" => loaded.dict = crashRec.post

\* C10 amended: after a commit through atomic_operation and the removal of the
\* primary file, a new StateStorage recovers from the backup the content the
\* primary held just before that commit (the empty map when that content does
\* not parse).
C10_RecoversPreviousPrimary ==
  (phase = "restored" /\ prevPrimary.exists) =>
    loaded.dict = IF prevPrimary.content.valid THEN prevPrimary.content.dict ELSE EmptyDict

C10_Witness ==
  /\ phase = "restored"
  /\ prevPrimary.exists
  /\ prevPrimary.content.valid
  /\ prevPrimary.content.dict # EmptyDict
  /\ loaded.dict = prevPrimary.content.dict
  /\ loaded.dict # crashRec.post

\* The increments task t has stored so far.
Applied(t) ==
  (RmwEach - ops[t]) - (IF pc[t] \in {"start", "lock", "wait", "body", "r_sleep"} THEN 1 ELSE 0)

RECURSIVE AppliedUpTo(_)
AppliedUpTo(n) == IF n = 0 THEN 0 ELSE Applied(n) + AppliedUpTo(n - 1)

\* C2: concurrent read-modify-write operations through atomic_operation, each
\* suspending between its read and its write, lose no update: the counter
\* always equals the number of increments stored, and once every task is done
\* the primary file holds that map.
C2_NoLostUpdate ==
  /\ Count(state, "k1") = AppliedUpTo(NTasks)
  /\ (\A t \in Tasks : pc[t] = "idle") =>
       (Exists("primary") /\ FileOf("primary").content = Json(state))

C2_Witness ==
  /\ \A t \in Tasks : pc[t] = "idle" /\ ops[t] = 0 /\ res[t] = "ok"
  /\ Count(state, "k1") = NTasks * RmwEach
  /\ FileOf("primary").content = Json(state)

SaveSteps == {"s_open", "s_opened", "s_flush", "s_flushed", "s_ren2"}

\* C3: every durable commit runs while its task holds the store lock, the
\* commits issued by initialize and by the lazy initialisation of get_item and
\* update_item included, and no commit finds its temp file moved away.
C3_CommitsUnderLock ==
  \A t \in Tasks :
    /\ pc[t] \in SaveSteps => lock = t
    /\ pc[t] = "s_ren2" => Exists("temp")

\* C4: a record whose status is terminal (completed, error, cancelled,
\* expired) keeps that status under every later write.
C4_TerminalSticky ==
  [][\A k \in JobKeys :
       (Has(state, k) /\ state.val[k].status \in Terminal /\ Has(state', k)) =>
         state'.val[k].status = state.val[k].status]_vars

\* C5: the progress of a job's record never decreases.
C5_ProgressMonotone ==
  [][\A k \in JobKeys :
       (Has(state, k) /\ Has(state', k)) =>
         state'.val[k].progress >= state.val[k].progress]_vars

\* C6: no eviction pass (periodic_downloads_cleanup, cleanup_old_items) deletes
\* a record whose status is not terminal, or the file of such a record.
C6_EvictsOnlyTerminal ==
  [][/\ \A k \in JobKeys :
          (Has(state, k) /\ ~Has(state', k)) => state.val[k].status \in Terminal
     /\ \A k \in JobKeys :
          (/\ Has(state, k)
           /\ "file_path" \in DOMAIN state.val[k]
           /\ state.val[k].file_path \in media \ media') => state.val[k].status \in Terminal]_vars

\* C7: when a pass of periodic_downloads_cleanup ends, every completed record
\* that was older than the window when the pass began is gone, and so is its
\* file, however many such records there are and whatever key the job was
\* stored under.
C7_PassEvictsAllCompleted ==
  [][(sweep.on /\ ~sweep'.on) =>
       \A k \in sweep.qual :
         ~(/\ Has(state', k)
           /\ state'.val[k].status = "completed"
           /\ TooOld(SweepAge(state'.val[k])))]_vars

\* C11: when the body of an atomic_operation raises after assigning a key, a
\* later get_item of that key returns the value the key had before the failed
\* operation, and the primary file never comes to hold the failed assignment.
C11_BodyFailureRolledBack ==
  failed.on =>
    /\ failed.read => failed.got = failed.before
    /\ FileOf("primary").content.valid =>
         Lookup(FileOf("primary").content.dict, failed.key) = failed.before

\* A step of the cancel endpoint for id j.
Cancels(j) == jobs'[j].cancels = jobs[j].cancels + 1

\* C12: a cancel request for the same id a second time, or for a job whose
\* record has reached completed (or any terminal status), leaves the record's
\* status as the first terminal write set it.
C12_CancelIdempotent ==
  [][\A j \in JobIds :
       (Cancels(j) /\ Has(state, j) /\ state.val[j].status \in Terminal) =>
         (Has(state', j) /\ state'.val[j].status = state.val[j].status)]_vars

\* C13: for an id that start_download returned and whose job is not finished,
\* the cancel endpoint answers 200 and the record read under that id right
\* after has status cancelled.
C13_CancelSubmitted ==
  [][\A j \in JobIds :
       (Cancels(j) /\ jobs[j].pc # "none" /\ Has(state, j) /\ state.val[j].status \notin Terminal) =>
         /\ jobs'[j].reply = "200"
         /\ Has(state', j)
         /\ state'.val[j].status = "cancelled"]_vars

\* C14: the cancel endpoint answers 404 exactly for the ids that were never
\* submitted, and then leaves the store as it was; every submitted id gets 200.
C14_NotFoundIffNeverSubmitted ==
  [][\A j \in JobIds :
       Cancels(j) =>
         /\ jobs'[j].reply = "404" <=> jobs[j].pc = "none"
         /\ jobs'[j].reply = "200" <=> jobs[j].pc # "none"
         /\ jobs[j].pc = "none" => state' = state]_vars

\* process_download is between its first write and its last.
InFlight == {"starting", "downloading"}

\* C15: a download in flight has its handle in active_downloads from the moment
\* process_download starts, and a cancel request for it cancels that handle.
C15_HandleRegistered ==
  [][\A j \in JobIds :
       /\ jobs'[j].pc \in InFlight => j \in active_downloads'
       /\ (Cancels(j) /\ jobs[j].pc \in InFlight) => jobs'[j].term]_vars

\* C16: download.cancel_download raises ValidationError and leaves the state
\* as it was when the status is completed, error or expired, and sets the
\* status to cancelled when the status is not terminal.
C16_CancelByStatus ==
  [][dl'.cancels = dl.cancels + 1 =>
       /\ dl.st.status \in {"completed", "error", "expired"} =>
            (dl'.cout = "ValidationError" /\ dl'.st = dl.st)
       /\ dl.st.status \notin Terminal =>
            (dl'.cout = "returned" /\ dl'.st.status = "cancelled")]_vars

\* a cancel that went through while the download ran, then one refused after
\* the download had completed
C16_Witness ==
  /\ dl.cancels = 2
  /\ dl.cout = "ValidationError"
  /\ dl.cbefore.status = "completed"
  /\ dl.st = dl.cbefore

\* C17: when every attempt of download_video failed with a NetworkError or a
\* ProcessingError, it raises that error with the state in status error and
\* retry_count equal to max_retries.
C17_ExhaustedAtMaxRetries ==
  (dl.pc = "raised" /\ dl.fails = dl.attempts) =>
    /\ dl.exc \in {"NetworkError", "ProcessingError"}
    /\ dl.st.status = "error"
    /\ dl.st.retry_count = dl.st.max_retries

\* C18: k transient failures with k <= max_retries do not end download_video,
\* and when the next attempt succeeds it returns with status completed,
\* progress 100 and retry_count = k, having written retrying k times.
C18_RetryThenSuccess ==
  /\ dl.pc = "returned" =>
       /\ dl.st.status = "completed"
       /\ dl.st.progress = 100
       /\ dl.fails <= dl.st.max_retries
       /\ dl.st.retry_count = dl.fails
       /\ dl.retried = dl.fails
       /\ dl.attempts = dl.fails + 1
  /\ (dl.pc = "raised" /\ dl.fails = dl.attempts) => dl.fails > dl.st.max_retries

\* success after as many failures as max_retries allows
C18_Witness ==
  /\ dl.pc = "returned"
  /\ dl.fails = dl.st.max_retries
  /\ dl.fails >= 2

\* C19: an attempt that raises ValidationError is the last one: download_video
\* raises ValidationError with status error and the message recorded, and the
\* attempt is not counted in retry_count; when it is the first attempt, it is
\* the only one and retry_count is still 0.
C19_ValidationNotRetried ==
  (dl.pc = "raised" /\ dl.last = "status4xx") =>
    /\ dl.exc = "ValidationError"
    /\ dl.st.status = "error"
    /\ dl.st.error = ErrorText("status4xx", "")
    /\ dl.attempts = dl.fails + 1
    /\ dl.st.retry_count = dl.fails

C19_Witness ==
  /\ dl.pc = "raised"
  /\ dl.exc = "ValidationError"
  /\ dl.attempts = 1
  /\ dl.st.retry_count = 0

\* C20: download_video makes at most max_retries + 1 attempts, every call
\* that has begun an attempt ends, and it ends returned with status completed
\* or raised with status error.
C20_Terminates ==
  /\ [](dl.attempts <= dl.st.max_retries + 1)
  /\ [](dl.pc = "returned" => dl.st.status = "completed")
  /\ [](dl.pc = "raised" => dl.st.status = "error")
  /\ (dl.pc = "attempt") ~> (dl.pc \in {"returned", "raised"})

\* the longest run: every attempt fails until the retries are used up
C20_Witness ==
  /\ dl.pc = "raised"
  /\ dl.st.max_retries = MaxRetries
  /\ dl.attempts = MaxRetries + 1

\* C21: once download_video works on a DownloadState, the state is in exactly
\* one of three shapes: completed with file_path set and error null; error with
\* error set; any other status with file_path and error both null.
C21_RecordShape ==
  dl.pc \in {"attempt", "sleep", "returned", "raised"} =>
    CASE dl.st.status = "completed" -> dl.st.file_path # "none" /\ dl.st.error = NoError
      [] dl.st.status = "error" -> dl.st.error # NoError
      [] OTHER -> dl.st.file_path = "none" /\ dl.st.error = NoError

\* C22: a report "finished" makes the committed progress 100 and the status
\* processing, and a report of fewer bytes than already committed does not
\* lower the committed progress (50/100, 40/100, finished commits 50, 50, 100).
C22_FinishedIsProcessing ==
  [][hook'.samples = hook.samples + 1 =>
       /\ hook'.last = "finished" =>
            /\ Has(state', hook.key)
            /\ state'.val[hook.key].progress = 100
            /\ state'.val[hook.key].status = "processing"
       /\ \A i \in 1..(Len(hook'.committed) - 1) :
            hook'.committed[i] <= hook'.committed[i + 1]]_vars

\* C27: every progress value committed to a record lies in [0, 100].
C27_ProgressInRange ==
  \A k \in JobKeys : Has(state, k) => (state.val[k].progress >= 0 /\ state.val[k].progress <= 100)

\* C23: the map get_all_items returned to a sweep is a snapshot: no store
\* operation made while the sweep holds it shows through it.
C23_SnapshotUnchanged == [][sweep.on /\ sweep'.on => Downloads' = Downloads]_vars

\* C24: when the commit of an update fails with an I/O error, the commit is
\* attempted once more (and the map in memory keeps the update).
C24_FailedCommitRetried ==
  [][\A t \in Tasks :
       (pc[t] = "s_ren2" /\ frame[t] = "atomic" /\ res'[t] = "error" /\ res[t] # "error")
         => (pc'[t] = "s_open" /\ state' = state)]_vars

\* C25: after every successful commit the temp file does not exist, the primary
\* file holds exactly the map in memory, and the backup file holds exactly the
\* content the primary file had immediately before the commit replaced it.
C25_CommitLeavesDirectory ==
  [][\A t \in Tasks :
       /\ (pc[t] = "s_flushed" /\ pc'[t] = "s_ren2" /\ Exists("primary"))
            => FileOf("backup")' = FileOf("primary")
       /\ (pc[t] = "s_ren2" /\ pc'[t] \in {"unlock", "i_done"} /\ Exists("temp"))
            => /\ ~Exists("temp")'
               /\ FileOf("primary")' = [exists |-> TRUE, content |-> Json(state')]
               /\ FileOf("backup")' = FileOf("backup")]_vars

\* C26: update_item on an existing key overwrites exactly the fields of the
\* update and keeps the record's other fields, on an absent key it creates the
\* record, it leaves the records under all other keys as they were, and when
\* the call returns the primary file holds the result.
C26_UpdateMergesAndCommits ==
  [][\A t \in Tasks :
       LET k == op[t].key
           v == op[t].val
       IN (op[t].name = "update_item" /\ crashes' = crashes) =>
            /\ (pc[t] = "body" /\ pc'[t] # "body") =>
                 /\ Has(state', k)
                 /\ DOMAIN state'.val[k] = DOMAIN v \cup (IF Has(state, k) THEN DOMAIN state.val[k] ELSE {})
                 /\ \A f \in DOMAIN v : state'.val[k][f] = v[f]
                 /\ \A f \in DOMAIN state'.val[k] \ DOMAIN v : state'.val[k][f] = state.val[k][f]
                 /\ \A j \in Keys \ {k} : Lookup(state', j) = Lookup(state, j)
            /\ (pc[t] # "idle" /\ pc'[t] = "idle" /\ res'[t] # "error") =>
                 /\ FileOf("primary")'.content.valid
                 /\ Has(FileOf("primary")'.content.dict, k)
                 /\ \A f \in DOMAIN v : FileOf("primary")'.content.dict.val[k][f] = v[f]]_vars

C29_ChangesDelivered ==
  [][\A j \in JobIds :
       (/\ jobs[j].stream # "none"
        /\ \A i \in 1..Len(jobs[j].events) : jobs[j].events[i].status \notin Terminal
        /\ Has(state, j) /\ Has(state', j)
        /\ ProgressEvent(state'.val[j]) # ProgressEvent(state.val[j]))
         => jobs'[j].events = Append(jobs[j].events, ProgressEvent(state'.val[j]))]_vars

\* C30: once start has been called the first pass runs before any wait for the
\* interval, and passes recur until stop: every file of the downloads and the
\* logs directory that a pass is to delete and that is older than the maximum
\* age is eventually deleted, also after passes that failed.
C30_OldFilesDeleted ==
  /\ [](cm.task # "none" => cm.slept <= cm.passes)
  /\ \A f \in Cleaned :
       (cm.task # "none" /\ Entry(cm.files, f) = "old")
         ~> (Entry(cm.files, f) = "gone" \/ cm.task = "none")

\* C30 witness: the manager is running, passes have failed, more than one pass
\* has run, and the old download and the old log are deleted.
C30_Witness ==
  /\ cm.task # "none"
  /\ cm.faults = MaxFaults
  /\ cm.passes = 2
  /\ {"video.mp4", "app.log"} \subseteq DOMAIN cm.files
  /\ \A f \in Cleaned : Entry(cm.files, f) = "gone"

\* C31: cleanup_downloads deletes an entry of the downloads directory if and
\* only if it is a regular file older than the maximum age whose name does not
\* end in .json, does not start with a dot and is not logs; a stale .part file
\* goes like any other file, and every other entry stays as it was.
C31_DeletesExactlyOldFiles ==
  [][(cm.task = "direct" /\ cm'.task = "none" /\ cm'.faults = cm.faults) =>
       \A f \in DownloadsDir :
         LET due == /\ IsFile(f)
                    /\ cm.files[f] = "old"
                    /\ ~EndsWithJson(f) /\ ~StartsWithDot(f) /\ f # "logs"
         IN /\ due => cm'.files[f] = "gone"
            /\ ~due => cm'.files[f] = cm.files[f]]_vars

\* C31 witness: a call has returned with the old .part file and the old video
\* deleted while a file exactly at the maximum age, the old state.json, the
\* old dot file and the old directories are in place.
C31_Witness ==
  /\ cm.task = "none"
  /\ cm.faults = 0
  /\ DOMAIN cm.files = DownloadsDir
  /\ cm.files["video.mp4.part"] = "gone"
  /\ cm.files["video.mp4"] = "gone"
  /\ cm.files["state.json.temp"] = "due"
  /\ cm.files["state.json"] = "old"
  /\ cm.files[".progress"] = "old"
  /\ cm.files["logs"] = "old"
  /\ cm.files["subdir"] = "old"

\* C32: once process_download has returned the file path and every write it
\* scheduled has been applied (no update_item task of the job waits, the
\* poller has started), the record is completed with progress 100 and its
\* file_path; no client has cancelled.
C32_CompletedStays ==
  \A j \in Tracked :
    (/\ jobs[j].pc = "completed"
     /\ \A i \in 1..Len(queue) : queue[i].key # j
     /\ jobs[j].poll # "spawned"
     /\ jobs[j].cancels = 0)
    => /\ Has(state, j)
       /\ state.val[j].status = "completed"
       /\ state.val[j].progress = 100
       /\ "file_path" \in DOMAIN state.val[j]

\* C33: once the download has ended and its final status is in the record, a
\* step of the progress-file poller (update_progress_from_file starting, or a
\* turn of its loop) leaves the status as it is.
C33_PollerSilentAfterEnd ==
  [][\A j \in Tracked :
       (/\ jobs[j].pc \in {"completed", "failed"}
        /\ Has(state, j)
        /\ state.val[j].status \in {"completed", "error"}
        /\ jobs[j].poll \in {"spawned", "looping"}
        /\ jobs'[j].poll = "looping"
        /\ jobs'[j].cancels = jobs[j].cancels
        /\ jobs'[j].syncs = jobs[j].syncs
        /\ queue' = queue)
       => state'.val[j].status = state.val[j].status]_vars

\* ------------------------------------------------ a record handed out
\* update_download_status on a store that is up and holds the job's record,
\* next to requests that commit another record or read the job's.
StatusRecord == [status |-> "downloading", progress |-> 1]

\* the fields update_download_status(download_id, "completed", progress=100) sets
StatusFields == [status |-> "completed", progress |-> 100]

\* update_download_status's get_item; val carries what the caller is about to set
StatusGets == {[name |-> "get_item", key |-> "k1", val |-> StatusFields]}

\* update_download_status's update_item: the record get_item returned, modified
StatusUpdates == {[name |-> "update_item", key |-> "k1", val |-> Merge(StatusRecord, StatusFields)]}

StatusOps ==
  {[name |-> "get_item", key |-> "k1", val |-> EmptyFn],
   [name |-> "update_item", key |-> "k2", val |-> [progress |-> 1]]}

\* get_item returns self.state.get(key), the record object itself, and the
\* lock is released; update_download_status sets the fields on it and calls
\* update_item, which goes for the lock.  No await lies between.
StatusSet(t) ==
  /\ running = t
  /\ pc[t] = "unlock"
  /\ op[t] \in StatusGets
  /\ lock' = 0
  /\ IF Has(state, op[t].key)
     THEN /\ state' = Put(state, op[t].key, Merge(state.val[op[t].key], op[t].val))
          /\ \E o \in StatusUpdates : op' = [op EXCEPT ![t] = o]
          /\ pc' = [pc EXCEPT ![t] = "lock"]
          /\ UNCHANGED running
     ELSE /\ pc' = [pc EXCEPT ![t] = "idle"]
          /\ running' = 0
          /\ UNCHANGED <<state, op>>
  /\ UNCHANGED <<initialized, lazy, waiters, files, disk>>
  /\ UNCHANGED <<frame, rpath, fh, buf, tmp, res, snap, ops, histVars>>
  /\ UNCHANGED <<jobVars, extVars>>

CallStatus(t) ==
  \/ t = 1 /\ \E o \in StatusGets : Call(t, o)
  \/ t # 1 /\ \E o \in StatusOps : Call(t, o)

InitStatus ==
  /\ state = Put(EmptyDict, "k1", StatusRecord)
  /\ initialized = TRUE
  /\ lazy = FALSE
  /\ lock = 0
  /\ waiters = <<>>
  /\ files = [primary |-> 1, backup |-> 0, temp |-> 0]
  /\ disk = [i \in Inodes |-> IF i = 1 THEN Json(Put(EmptyDict, "k1", StatusRecord)) ELSE EmptyFile]
  /\ FreshTasks
  /\ FreshHistory
  /\ FreshJobs
  /\ FreshExt
  /\ ops = [t \in Tasks |-> 1]

NextStatus ==
  \E t \in Tasks :
    \/ CallStatus(t)
    \/ Start(t)
    \/ Lock(t)
    \/ Wake(t)
    \/ Body(t)
    \/ SOpen(t)
    \/ SWrite(t)
    \/ SFlush(t)
    \/ SRename1(t)
    \/ SRename2(t)
    \/ Unlock(t) /\ op[t] \notin StatusGets
    \/ StatusSet(t)

SpecStatus == InitStatus /\ [][NextStatus]_vars

\* C34: as long as update_download_status has not entered the critical section
\* of its update_item (it waits for the lock), the fields it set on the record
\* get_item returned are neither what a reader of the store finds nor in what
\* a commit of another task has put on disk.
C34_ReturnedRecordIsPrivate ==
  \A t \in Tasks :
    (op[t] \in StatusUpdates /\ pc[t] = "wait")
    => /\ state.val["k1"] = StatusRecord
       /\ Exists("primary") => disk[files.primary].dict.val["k1"] = StatusRecord

\* C35: no step removes state.json, state.json.backup or state.json.temp from
\* the downloads directory; the clean-up passes are the only steps that remove
\* anything there.
C35_StoreFilesKept ==
  [][\A f \in StoreFiles : cm.files[f] # "gone" => cm'.files[f] # "gone"]_vars

\* ------------------------------------------------ records of any shape
\* What created_at can hold: an ISO string, another string, a float; t is the
\* time it denotes.
CreatedAts == {[fmt |-> f, t |-> n] : f \in {"iso", "text", "float"}, n \in 0..1}

\* Completed records as a caller of update_download_state_sync or a loaded
\* state.json can put them into the store.
AgeRecords ==
  {[status |-> "completed", progress |-> 100, updated_at |-> u] : u \in 0..1}
  \cup {[status |-> "completed", progress |-> 100, updated_at |-> u, created_at |-> c] :
          u \in 0..1, c \in CreatedAts}

InitAge ==
  /\ \E ra \in AgeRecords, rb \in AgeRecords :
       state = Put(Put(EmptyDict, "download_a", ra), "download_b", rb)
  /\ initialized = TRUE
  /\ lazy = FALSE
  /\ lock = 0
  /\ waiters = <<>>
  /\ files = [primary |-> 1, backup |-> 0, temp |-> 0]
  /\ disk = [i \in Inodes |-> IF i = 1 THEN Json(state) ELSE EmptyFile]
  /\ FreshTasks
  /\ FreshHistory
  /\ FreshJobs
  /\ FreshExt
  /\ ops = [t \in Tasks |-> 0]

NextAge ==
  \/ Tick
  \/ SweepBegin
  \/ SweepStep
  \/ CleanupOldItems

SpecAge == InitAge /\ [][NextAge]_vars

\* C36: a step of an eviction pass does not delete a record whose updated_at
\* lies within the retention window, whatever its created_at is.
C36_RecentlyUpdatedKept ==
  [][\A k \in DOMAIN state.val :
       ("updated_at" \in DOMAIN state.val[k] /\ ~TooOld(now - state.val[k].updated_at))
       => k \in DOMAIN state'.val]_vars

\* C37: a progress hook that is handed a downloading report with neither a
\* positive fragment count nor a positive total or estimated total leaves the
\* progress committed to the record as it was.
C37_BlindSampleKeepsProgress ==
  [][(hook'.samples = hook.samples + 1 /\ hook'.blind)
       => Committed(state', hook.key) = Committed(state, hook.key)]_vars

\* ------------------------------------------------ a pass over stored files
\* Completed records under download_ keys, updated now or a window ago, some
\* with a file_path, and of the files some on disk and some gone.
SweepRecords ==
  {[status |-> "completed", progress |-> 100, updated_at |-> u] : u \in 0..1}
  \cup {[status |-> "completed", progress |-> 100, updated_at |-> u, file_path |-> j] :
          u \in 0..1, j \in JobIds}

InitSweep ==
  /\ \E ra \in SweepRecords, rb \in SweepRecords :
       state = Put(Put(EmptyDict, "download_a", ra), "download_b", rb)
  /\ initialized = TRUE
  /\ lazy = FALSE
  /\ lock = 0
  /\ waiters = <<>>
  /\ files = [primary |-> 1, backup |-> 0, temp |-> 0]
  /\ disk = [i \in Inodes |-> IF i = 1 THEN Json(state) ELSE EmptyFile]
  /\ FreshTasks
  /\ FreshHistory
  /\ jobs = [j \in JobIds |-> NoJob]
  /\ queue = <<>>
  /\ media \in SUBSET JobIds
  /\ now = 1
  /\ sweep = NoSweep
  /\ active_downloads = {}
  /\ FreshExt
  /\ ops = [t \in Tasks |-> 0]

NextSweep ==
  \/ Tick
  \/ SweepBegin
  \/ SweepStep

SpecSweep == InitSweep /\ [][NextSweep]_vars

\* C38: when a pass of periodic_downloads_cleanup removes a record, the file
\* at its file_path is gone no later than the record; and a pass that removed
\* a record whose file was already gone is not cut short: it ends by reaching
\* the end of the records.
C38_FileFirstAndPassGoesOn ==
  [][sweep.on =>
       /\ \A k \in (DOMAIN state.val) \ (DOMAIN state'.val) :
            "file_path" \in DOMAIN state.val[k] => state.val[k].file_path \notin media'
       /\ (sweep.missing /\ ~sweep'.on) => Len(state.keys) = sweep.used]_vars

\* ------------------------------------------------ start and stop interleaved
\* stop() awaits the task it cancelled, so calls of start() and steps of the
\* task run between its cancel and its finally.  cm.task is the position of
\* the task _cleanup_task refers to, "cancelled" once cancel() was called on
\* it and "done" when it has ended; cm.stop tells whether a stop() is
\* suspended in wait_for ("waiting") or due to resume because the task it
\* awaits has ended ("woken"); cm.orphans counts the periodic tasks that run
\* on with no reference left to them.
MaxOrphans == 2

Running == {"downloads", "logs", "sleep"}

\* the periodic tasks that exist and are not done
LiveTasks(c) == c.orphans + (IF c.task \in Running \cup {"cancelled"} THEN 1 ELSE 0)

\* stop() up to its await: self._cleanup_task.cancel(), wait_for
CmStopCall ==
  /\ cm.stop = "none"
  /\ cm.task \in Running
  /\ cm.orphans < MaxOrphans
  /\ cm' = [cm EXCEPT !.task = "cancelled", !.stop = "waiting"]
  /\ UNCHANGED <<storeVars, taskVars, histVars, jobVars, failed, dl, hook, order>>

\* the cancelled task runs: CancelledError at its await, the loop breaks, the
\* task is done and the stop() awaiting it is scheduled
CmTaskCancelled ==
  /\ cm.task = "cancelled"
  /\ cm' = [cm EXCEPT !.task = "done", !.stop = "woken"]
  /\ UNCHANGED <<storeVars, taskVars, histVars, jobVars, failed, dl, hook, order>>

\* stop() resumes: finally self._cleanup_task = None, whatever it refers to
CmStopReturn ==
  /\ cm.stop = "woken"
  /\ cm' = [cm EXCEPT !.stop = "none", !.task = "none",
                      !.orphans = IF cm.task \in Running THEN @ + 1 ELSE @]
  /\ UNCHANGED <<storeVars, taskVars, histVars, jobVars, failed, dl, hook, order>>

InitStartStop ==
  /\ FreshMemory
  /\ FreshTasks
  /\ FreshHistory
  /\ FreshJobs
  /\ files = [primary |-> 0, backup |-> 0, temp |-> 0]
  /\ disk = [i \in Inodes |-> EmptyFile]
  /\ ops = [t \in Tasks |-> 0]
  /\ FreshExt

NextStartStop ==
  \/ CmStart
  \/ \E listed \in BOOLEAN : CmDownloads(listed, {})
  \/ \E listed \in BOOLEAN : CmLogs(listed, {})
  \/ CmTimer
  \/ CmStopCall
  \/ CmTaskCancelled
  \/ CmStopReturn

SpecStartStop == InitStartStop /\ [][NextStartStop]_vars

\* C39: at most one periodic cleanup task is live at any time, and when a
\* stop() returns none is, however calls of start and stop interleave.
C39_OneTaskNoneAfterStop ==
  [][/\ LiveTasks(cm') <= 1
     /\ (cm.stop # "none" /\ cm'.stop = "none") => LiveTasks(cm') = 0]_vars

\* C40: an update_item call that finds the store uninitialised goes on to
\* initialize, and a call that returns without an error has its fields in the
\* record in memory and in the primary file; a call that could not initialise
\* the store returns an error.
C40_NoSilentReturn ==
  [][\A t \in Tasks :
       op[t].name = "update_item" =>
         /\ (pc[t] = "start" /\ pc'[t] # "start" /\ ~initialized) => pc'[t] = "i_check"
         /\ (pc[t] # "idle" /\ pc'[t] = "idle" /\ res'[t] # "error") =>
              /\ Has(state', op[t].key)
              /\ \A f \in DOMAIN op[t].val : state'.val[op[t].key][f] = op[t].val[f]
              /\ FileOf("primary")'.exists
              /\ FileOf("primary")'.content.valid
              /\ Has(FileOf("primary")'.content.dict, op[t].key)]_vars

====
